---- MODULE Spec2Model ----
(***************************************************************************)
(* The QUIC-like transport of hw5 (src/hw5/quic_impl.py): one              *)
(* QuicConnection with its sender worker, its receiver worker and the      *)
(* caller's send / recv / close, against a peer and a datagram network,    *)
(* and the connect_to / accept_one handshake.                              *)
(***************************************************************************)
EXTENDS Integers, Sequences, FiniteSets, TLC

(***************************************************************************)
(* Program constants.                                                      *)
(***************************************************************************)
RETRY_COUNT == 3
RECEIVE_SIZE == 650
PACKET_SIZE == 1500
SSTHRESH == 64
PacketHeaderSize == 8
FrameHeaderSize == 1
StreamFrameSize == 24

(***************************************************************************)
(* Bounds of the model.                                                    *)
(***************************************************************************)
MaxSends == 2
MaxPeerSends == 3
MaxReturns == 2
MaxStrays == 2

\* Window values a peer may advertise in its handshake Ack frame (a uint32).
AdvertisedWindows == {0, 6, RECEIVE_SIZE}
\* Stream ids and payloads the caller passes to send().  A payload is a byte
\* string, kept as a sequence of segments [src, lo, hi) of named buffers.
SendStreams == {7, 8}
Hello == <<[src |-> "hello", lo |-> 0, hi |-> 13]>>
Bye == <<[src |-> "bye", lo |-> 0, hi |-> 4]>>
Body == <<[src |-> "body", lo |-> 0, hi |-> 2000]>>
SendData == {Hello, Bye, Body}

VARIABLES
    is_closed,            \* self.is_closed
    max_window_size,      \* self.max_window_size
    send_buffer,          \* self.send_buffer: dict in insertion order, <<[sid, frames]>>
    sender_window_size,   \* self.sender_window_size (congestion window)
    sender_window,        \* self.sender_window: <<[packet_number, frame, sent_time]>>
    ack_list,             \* self.ack_list: <<[packet_number, window_size]>>
    exponential_growth,   \* self.exponential_growth (slow start)
    packet_number,        \* self.packet_number (next packet number)
    recv_buffer,          \* self.recv_buffer: dict in insertion order, <<[sid, frames]>>
    spc,                  \* position of sender_thread
    has_loss,             \* sender_thread's local has_loss
    s_tmp,                \* sender_thread: value of sender_window_size read at line 287
    s_acks,               \* sender_thread: what is left to send of the copy of ack_list
                          \* taken at line 291
    rpc,                  \* position of receiver_thread
    r_pkt,                \* receiver_thread: the datagram read at line 314
    r_tmp,                \* receiver_thread: grown window size computed at lines 359-362
    close_pc,             \* position of the caller's close()
    net_in,               \* datagrams in flight to this connection's socket
    net_out,              \* stream packets in flight to the peer
    ack_sent,             \* Ack packets written to the socket: <<[packet_number, ack]>>
    returned,             \* values returned by recv(): <<[stream_id, data]>>, each with
                          \* the ordered_frames it was joined from
    sends,                \* number of send() calls made
    peer_sends,           \* number of stream datagrams put on the wire by the peer
    c_pc,                 \* position of the client's connect_to
    c_conn,               \* what connect_to returned: cls(sock, window, 2)
    a_pc,                 \* position of the server's accept_one
    a_addr,               \* accept_one: addr of the first recvfrom
    a_conn,               \* what accept_one returned: None or cls(sock, window, 1), addr
    to_server,            \* handshake datagrams in flight to the server's socket
    to_client,            \* handshake datagrams in flight to a client's socket
    strays,               \* number of datagrams put on the wire by other
                          \* implementations or duplicated by the network
    side,                 \* whose QuicConnection the connection variables hold:
                          \* that of connect_to ("client") or of accept_one ("server")
    k_obj,                \* packet.py: the object to_bytes is called on
    k_wire,               \* packet.py: the bytes to_bytes returned
    k_out,                \* packet.py: what from_bytes returned
    recv_call,            \* recv(): the position and the locals of a call that is
                          \* scanning recv_buffer
    algo,                 \* hw4: which of run_ospf and run_rip is running
    link_cost,            \* hw4: the link_cost argument of the run
    routers,              \* hw4: the routers list of the run
    is_converged,         \* hw4: the loop variable of the run
    shortest_paths,       \* hw4: the first result of the run, once it returned
    records,              \* hw4: the records list of the run, one list per round
    logs                  \* hw4: the second result of the run, once it returned

\* The variables of a connection, and those of the handshake before it.
cvars == <<is_closed, max_window_size, send_buffer, sender_window_size, sender_window,
           ack_list, exponential_growth, packet_number, recv_buffer, spc, has_loss,
           s_tmp, rpc, r_pkt, r_tmp, close_pc, net_in, net_out, ack_sent, returned,
           sends, peer_sends, s_acks>>
hvars == <<c_pc, c_conn, a_pc, a_addr, a_conn, to_server, to_client, strays, side>>
\* The variables of the encoders and decoders of packet.py.
kvars == <<k_obj, k_wire, k_out>>

\* The variables of a run of run_ospf or run_rip (hw4).
nvars == <<algo, link_cost, routers, is_converged, shortest_paths, records, logs>>

vars == <<cvars, hvars, kvars, recv_call, nvars>>

(***************************************************************************)
(* Byte strings.                                                           *)
(***************************************************************************)
Max(a, b) == IF a >= b THEN a ELSE b
Min(a, b) == IF a <= b THEN a ELSE b

RECURSIVE ByteLen(_)
ByteLen(d) == IF d = <<>> THEN 0 ELSE (Head(d).hi - Head(d).lo) + ByteLen(Tail(d))

\* b"".join of two byte strings; adjacent segments of one buffer are one segment.
ByteCat(a, b) ==
    IF a = <<>> THEN b
    ELSE IF b = <<>> THEN a
    ELSE LET x == a[Len(a)]
             y == b[1]
         IN IF x.src = y.src /\ x.hi = y.lo
            THEN SubSeq(a, 1, Len(a) - 1) \o <<[src |-> x.src, lo |-> x.lo, hi |-> y.hi]>>
                 \o Tail(b)
            ELSE a \o b

\* data[i : j] of a byte string held in one segment.
ByteSlice(d, i, j) ==
    LET s == d[1]
        a == Min(s.lo + i, s.hi)
        b == Min(s.lo + j, s.hi)
    IN IF d = <<>> \/ a >= b THEN <<>> ELSE <<[src |-> s.src, lo |-> a, hi |-> b]>>

(***************************************************************************)
(* Dictionaries in insertion order: a sequence of [sid, frames].           *)
(***************************************************************************)
DictHas(d, k) == \E i \in 1..Len(d) : d[i].sid = k
DictIdx(d, k) == CHOOSE i \in 1..Len(d) : d[i].sid = k
\* d[k] = v
DictSet(d, k, v) ==
    IF DictHas(d, k)
    THEN [d EXCEPT ![DictIdx(d, k)] = [sid |-> k, frames |-> v]]
    ELSE Append(d, [sid |-> k, frames |-> v])
\* del d[k]
DictDel(d, k) == SelectSeq(d, LAMBDA e : e.sid # k)
\* d.setdefault(k, []).append(x)
DictAppend(d, k, x) ==
    IF DictHas(d, k)
    THEN [d EXCEPT ![DictIdx(d, k)].frames = Append(@, x)]
    ELSE Append(d, [sid |-> k, frames |-> <<x>>])

(***************************************************************************)
(* send(): fragmentation into stream frames.                               *)
(***************************************************************************)
max_stream_size == PACKET_SIZE - PacketHeaderSize - FrameHeaderSize - StreamFrameSize

\* A fragmentation whose every frame announces a full payload.
RECURSIVE FragmentFullLength(_, _, _)
FragmentFullLength(stream_id, data, i) ==
    IF i >= ByteLen(data) THEN <<>>
    ELSE <<[stream_id |-> stream_id,
            offset |-> i,
            length |-> max_stream_size,
            finished |-> i + max_stream_size >= ByteLen(data),
            data |-> ByteSlice(data, i, i + max_stream_size)]>>
         \o FragmentFullLength(stream_id, data, i + max_stream_size)

RECURSIVE Fragment(_, _, _)
Fragment(stream_id, data, i) ==
    IF i >= ByteLen(data) THEN <<>>
    ELSE LET finished == i + max_stream_size >= ByteLen(data)
         IN <<[stream_id |-> stream_id,
               offset |-> i,
               length |-> IF finished THEN ByteLen(data) - i ELSE max_stream_size,
               finished |-> finished,
               data |-> ByteSlice(data, i, i + max_stream_size)]>>
            \o Fragment(stream_id, data, i + max_stream_size)

\* QuicConnection.send: the caller's thread; no check of is_closed.
Send(stream_id, data) ==
    /\ sends < MaxSends
    /\ sends' = sends + 1
    /\ send_buffer' = DictSet(send_buffer, stream_id, Fragment(stream_id, data, 0))
    /\ UNCHANGED <<hvars, kvars, recv_call, s_acks, nvars, is_closed, max_window_size, sender_window_size, sender_window,
                   ack_list, exponential_growth, packet_number, recv_buffer, spc,
                   has_loss, s_tmp, rpc, r_pkt, r_tmp, close_pc, net_in, net_out,
                   ack_sent, returned, peer_sends>>

(***************************************************************************)
(* sender_thread.                                                          *)
(***************************************************************************)
\* An admission whose get_packet_number returns the incremented number.
RECURSIVE AdmitPassPreIncrement(_, _, _)
AdmitPassPreIncrement(st, k, size) ==
    IF k > Len(st.sb) THEN st
    ELSE IF st.sb[k].frames = <<>> THEN AdmitPassPreIncrement(st, k + 1, size)
    ELSE IF Len(st.win) >= size THEN st
    ELSE AdmitPassPreIncrement(
             [sb  |-> [st.sb EXCEPT ![k].frames = Tail(@)],
              win |-> Append(st.win, [packet_number |-> st.pn + 1,
                                      frame |-> Head(st.sb[k].frames),
                                      sent_time |-> "zero"]),
              pn  |-> st.pn + 1,
              has |-> TRUE],
             k + 1, size)

\* One pass of the for loop of lines 245-258 over a copy of send_buffer, from
\* its k-th stream on.  st = [sb, win, pn, has]: the (shared) frame lists, the
\* window, the next packet number and has_frames.
RECURSIVE AdmitPass(_, _, _)
AdmitPass(st, k, size) ==
    IF k > Len(st.sb) THEN st
    ELSE IF st.sb[k].frames = <<>> THEN AdmitPass(st, k + 1, size)
    ELSE IF Len(st.win) >= size THEN st
    ELSE AdmitPass([sb  |-> [st.sb EXCEPT ![k].frames = Tail(@)],
                    win |-> Append(st.win, [packet_number |-> st.pn,
                                            frame |-> Head(st.sb[k].frames),
                                            sent_time |-> "zero"]),
                    pn  |-> st.pn + 1,
                    has |-> TRUE],
                   k + 1, size)

\* An admission that takes a frame of every stream whatever the window holds.
AdmitUnbounded(st, size) ==
    AdmitPass([st EXCEPT !.has = FALSE], 1, Len(st.win) + Len(st.sb) + 1)

\* The while loop of lines 241-261.
RECURSIVE AdmitLoop(_, _)
AdmitLoop(st, size) ==
    IF Len(st.win) >= size THEN st
    ELSE LET r == AdmitPass([st EXCEPT !.has = FALSE], 1, size)
         IN IF r.has THEN AdmitLoop(r, size) ELSE r

SenderAdmit ==
    /\ spc = "admit"
    /\ LET r == AdmitLoop([sb |-> send_buffer, win |-> sender_window,
                           pn |-> packet_number, has |-> FALSE], sender_window_size)
       IN /\ send_buffer' = r.sb
          /\ sender_window' = r.win
          /\ packet_number' = r.pn
    /\ spc' = "send"
    /\ UNCHANGED <<hvars, kvars, recv_call, s_acks, nvars, is_closed, max_window_size, sender_window_size, ack_list,
                   exponential_growth, recv_buffer, has_loss, s_tmp, rpc, r_pkt,
                   r_tmp, close_pc, net_in, net_out, ack_sent, returned, sends,
                   peer_sends>>

\* time.time() - entry.sent_time > TIMEOUT: never sent, or sent more than
\* TIMEOUT ago.
TimedOut(entry) == entry.sent_time \in {"zero", "expired"}

\* A pass that takes every transmission, the first one included, for a loss.
SenderSendFirstIsLoss ==
    /\ spc = "send"
    /\ has_loss' = (\E i \in 1..Len(sender_window) : TimedOut(sender_window[i]))
    /\ sender_window' = [i \in 1..Len(sender_window) |->
                            IF TimedOut(sender_window[i])
                            THEN [sender_window[i] EXCEPT !.sent_time = "fresh"]
                            ELSE sender_window[i]]
    /\ net_out' = net_out \cup
                    { [packet_number |-> sender_window[i].packet_number,
                       frame |-> sender_window[i].frame] :
                      i \in { j \in 1..Len(sender_window) : TimedOut(sender_window[j]) } }
    /\ spc' = IF has_loss' THEN "loss_read" ELSE "acks"
    /\ UNCHANGED <<hvars, kvars, recv_call, s_acks, nvars, is_closed, max_window_size, send_buffer, sender_window_size,
                   ack_list, exponential_growth, packet_number, recv_buffer, s_tmp,
                   rpc, r_pkt, r_tmp, close_pc, net_in, ack_sent, returned, sends,
                   peer_sends>>

\* The for loop of lines 263-284: (re)send every timed-out entry.
SenderSend ==
    /\ spc = "send"
    /\ has_loss' = (\E i \in 1..Len(sender_window) : sender_window[i].sent_time = "expired")
    /\ sender_window' = [i \in 1..Len(sender_window) |->
                            IF TimedOut(sender_window[i])
                            THEN [sender_window[i] EXCEPT !.sent_time = "fresh"]
                            ELSE sender_window[i]]
    /\ net_out' = net_out \cup
                    { [packet_number |-> sender_window[i].packet_number,
                       frame |-> sender_window[i].frame] :
                      i \in { j \in 1..Len(sender_window) : TimedOut(sender_window[j]) } }
    /\ spc' = IF has_loss' THEN "loss_read" ELSE "acks"
    /\ UNCHANGED <<hvars, kvars, recv_call, s_acks, nvars, is_closed, max_window_size, send_buffer, sender_window_size,
                   ack_list, exponential_growth, packet_number, recv_buffer, s_tmp,
                   rpc, r_pkt, r_tmp, close_pc, net_in, ack_sent, returned, sends,
                   peer_sends>>

\* Line 287, the read of self.sender_window_size.
SenderLossRead ==
    /\ spc = "loss_read"
    /\ s_tmp' = sender_window_size
    /\ spc' = "loss_write"
    /\ UNCHANGED <<hvars, kvars, recv_call, s_acks, nvars, is_closed, max_window_size, send_buffer, sender_window_size,
                   sender_window, ack_list, exponential_growth, packet_number,
                   recv_buffer, has_loss, rpc, r_pkt, r_tmp, close_pc, net_in,
                   net_out, ack_sent, returned, sends, peer_sends>>

\* A halving without the floor of 1: what line 287 would be without max(1, .).
HalvedNoFloor(size) == size \div 2

\* max(1, self.sender_window_size // 2) of the value read.
Halved(size) == Max(1, size \div 2)

\* Lines 287-288, the store of the halved size, and exponential_growth = False.
SenderLossWrite ==
    /\ spc = "loss_write"
    /\ sender_window_size' = Halved(s_tmp)
    /\ exponential_growth' = FALSE
    /\ s_tmp' = 0
    /\ spc' = "acks"
    /\ UNCHANGED <<hvars, kvars, recv_call, s_acks, nvars, is_closed, max_window_size, send_buffer, sender_window, ack_list,
                   packet_number, recv_buffer, has_loss, rpc, r_pkt, r_tmp, close_pc,
                   net_in, net_out, ack_sent, returned, sends, peer_sends>>

\* Ack packets that take the next packet number without using it up.
SenderAcksSameNumber ==
    /\ spc = "acks"
    /\ ack_sent' = ack_sent \o [i \in 1..Len(ack_list) |->
                                  [packet_number |-> packet_number,
                                   ack |-> ack_list[i]]]
    /\ ack_list' = <<>>
    /\ spc' = "check"
    /\ UNCHANGED <<hvars, kvars, recv_call, s_acks, nvars, is_closed, max_window_size, send_buffer, sender_window_size,
                   sender_window, exponential_growth, packet_number, recv_buffer,
                   has_loss, s_tmp, rpc, r_pkt, r_tmp, close_pc, net_in, net_out,
                   returned, sends, peer_sends>>

\* Lines 291-303: one Ack packet, with a fresh packet number, per queued ack.
SenderAcks ==
    /\ spc = "acks"
    /\ ack_sent' = ack_sent \o [i \in 1..Len(ack_list) |->
                                  [packet_number |-> packet_number + i - 1,
                                   ack |-> ack_list[i]]]
    /\ packet_number' = packet_number + Len(ack_list)
    /\ ack_list' = <<>>
    /\ spc' = "check"
    /\ UNCHANGED <<hvars, kvars, recv_call, s_acks, nvars, is_closed, max_window_size, send_buffer, sender_window_size,
                   sender_window, exponential_growth, recv_buffer, has_loss, s_tmp,
                   rpc, r_pkt, r_tmp, close_pc, net_in, net_out, returned, sends,
                   peer_sends>>

\* An exit test that also waits for every sent packet to be acknowledged.
SenderExitDrained == is_closed /\ Len(ack_list) = 0 /\ sender_window = <<>>

\* The exit test of lines 305-306.
SenderExit == is_closed /\ Len(ack_list) = 0

SenderCheck ==
    /\ spc = "check"
    /\ spc' = IF SenderExit THEN "done" ELSE "admit"
    /\ UNCHANGED <<hvars, kvars, recv_call, s_acks, nvars, is_closed, max_window_size, send_buffer, sender_window_size,
                   sender_window, ack_list, exponential_growth, packet_number,
                   recv_buffer, has_loss, s_tmp, rpc, r_pkt, r_tmp, close_pc, net_in,
                   net_out, ack_sent, returned, sends, peer_sends>>

\* More than TIMEOUT elapses: every entry sent before is now "expired".
Older(t) == IF t = "fresh" THEN "expired" ELSE t

Tick ==
    /\ \E i \in 1..Len(sender_window) : sender_window[i].sent_time = "fresh"
    /\ sender_window' = [i \in 1..Len(sender_window) |->
                            [sender_window[i] EXCEPT !.sent_time = Older(@)]]
    /\ UNCHANGED <<hvars, kvars, recv_call, s_acks, nvars, is_closed, max_window_size, send_buffer, sender_window_size,
                   ack_list, exponential_growth, packet_number, recv_buffer, spc,
                   has_loss, s_tmp, rpc, r_pkt, r_tmp, close_pc, net_in, net_out,
                   ack_sent, returned, sends, peer_sends>>

(***************************************************************************)
(* Datagrams.                                                              *)
(***************************************************************************)
AckFrame(pn) == [packet_number |-> pn, window_size |-> RECEIVE_SIZE]
AckPacket(hpn, pn) ==
    [packet_type |-> "OneRTT", packet_number |-> hpn, frame_type |-> "Ack",
     body |-> AckFrame(pn)]
StreamPacket(hpn, frame) ==
    [packet_type |-> "OneRTT", packet_number |-> hpn, frame_type |-> "Stream",
     body |-> frame]
InitialPacket(hpn) ==
    [packet_type |-> "Initial", packet_number |-> hpn, frame_type |-> "Ack",
     body |-> AckFrame(hpn)]
NoPacket == [packet_type |-> "None"]

(***************************************************************************)
(* receiver_thread.                                                        *)
(***************************************************************************)
\* Line 312: the loop ends once is_closed is seen.
ReceiverExit ==
    /\ rpc = "loop"
    /\ is_closed
    /\ rpc' = "done"
    /\ UNCHANGED <<hvars, kvars, recv_call, s_acks, nvars, is_closed, max_window_size, send_buffer, sender_window_size,
                   sender_window, ack_list, exponential_growth, packet_number,
                   recv_buffer, spc, has_loss, s_tmp, r_pkt, r_tmp, close_pc, net_in,
                   net_out, ack_sent, returned, sends, peer_sends>>

\* Lines 312-314: is_closed is false and the socket holds datagram p.  (With no
\* datagram the non-blocking recv raises BlockingIOError and the loop goes on.)
ReceiverRecv(p) ==
    /\ rpc = "loop"
    /\ ~is_closed
    /\ p \in net_in
    /\ net_in' = net_in \ {p}
    /\ r_pkt' = p
    /\ rpc' = "dispatch"
    /\ UNCHANGED <<hvars, kvars, recv_call, s_acks, nvars, is_closed, max_window_size, send_buffer, sender_window_size,
                   sender_window, ack_list, exponential_growth, packet_number,
                   recv_buffer, spc, has_loss, s_tmp, r_tmp, close_pc, net_out,
                   ack_sent, returned, sends, peer_sends>>

\* Lines 317-319: the socket reports the peer gone (ConnectionRefusedError).
ReceiverRefused ==
    /\ rpc = "loop"
    /\ ~is_closed
    /\ is_closed' = TRUE
    /\ rpc' = "done"
    /\ UNCHANGED <<hvars, kvars, recv_call, s_acks, nvars, max_window_size, send_buffer, sender_window_size, sender_window,
                   ack_list, exponential_growth, packet_number, recv_buffer, spc,
                   has_loss, s_tmp, r_pkt, r_tmp, close_pc, net_in, net_out,
                   ack_sent, returned, sends, peer_sends>>

\* Lines 326-327: an Initial packet after the handshake is skipped.
ReceiverInitial ==
    /\ rpc = "dispatch"
    /\ r_pkt.packet_type = "Initial"
    /\ rpc' = "loop"
    /\ r_pkt' = NoPacket
    /\ UNCHANGED <<hvars, kvars, recv_call, s_acks, nvars, is_closed, max_window_size, send_buffer, sender_window_size,
                   sender_window, ack_list, exponential_growth, packet_number,
                   recv_buffer, spc, has_loss, s_tmp, r_tmp, close_pc, net_in,
                   net_out, ack_sent, returned, sends, peer_sends>>

\* A search that takes the oldest entry of the window, whatever its number.
OldestEntry(window, pn) == IF window = <<>> THEN 0 ELSE 1

\* handle_ack, lines 350-355: the index of the first window entry with the
\* acknowledged packet number, 0 when there is none.
FindEntry(window, pn) ==
    IF \E i \in 1..Len(window) : window[i].packet_number = pn
    THEN CHOOSE i \in 1..Len(window) :
            /\ window[i].packet_number = pn
            /\ \A j \in 1..(i - 1) : window[j].packet_number # pn
    ELSE 0

\* list.pop(i)
Pop(seq, i) == SubSeq(seq, 1, i - 1) \o SubSeq(seq, i + 1, Len(seq))

\* Lines 359-362: the grown window size.
Grown(size, exponential) == IF exponential THEN size * 2 ELSE size + 1

\* A dispatch on the frame type alone, whatever the packet type.
IsAckOfAnyPacket(p) == p.frame_type = "Ack"

\* Lines 326-331: the packet is no Initial packet and its frame is an Ack frame.
IsAck(p) == p.packet_type = "OneRTT" /\ p.frame_type = "Ack"

\* Lines 326-338: the packet is no Initial packet and its frame is a Stream frame.
IsStream(p) == p.packet_type = "OneRTT" /\ p.frame_type = "Stream"

\* A handle_ack without the early return of line 355: an unknown packet number
\* grows the window as a known one does.
HandleAckMissGrows ==
    /\ rpc = "dispatch"
    /\ r_pkt.packet_type = "OneRTT" /\ r_pkt.frame_type = "Ack"
    /\ \A i \in 1..Len(sender_window) :
          sender_window[i].packet_number # r_pkt.body.packet_number
    /\ sender_window_size' = IF exponential_growth THEN sender_window_size * 2
                             ELSE sender_window_size + 1
    /\ rpc' = "loop"
    /\ r_pkt' = [packet_type |-> "None"]
    /\ UNCHANGED <<hvars, kvars, recv_call, s_acks, nvars, is_closed, max_window_size, send_buffer,
                   sender_window, ack_list, exponential_growth, packet_number,
                   recv_buffer, spc, has_loss, s_tmp, r_tmp, close_pc, net_in,
                   net_out, ack_sent, returned, sends, peer_sends>>

\* handle_ack, lines 350-355: the packet number is not in the window.
HandleAckMiss ==
    /\ rpc = "dispatch"
    /\ IsAck(r_pkt)
    /\ FindEntry(sender_window, r_pkt.body.packet_number) = 0
    /\ rpc' = "loop"
    /\ r_pkt' = NoPacket
    /\ UNCHANGED <<hvars, kvars, recv_call, s_acks, nvars, is_closed, max_window_size, send_buffer, sender_window_size,
                   sender_window, ack_list, exponential_growth, packet_number,
                   recv_buffer, spc, has_loss, s_tmp, r_tmp, close_pc, net_in,
                   net_out, ack_sent, returned, sends, peer_sends>>

\* handle_ack, lines 358-362: pop the entry, read the flag and the size.
HandleAckPop ==
    /\ rpc = "dispatch"
    /\ IsAck(r_pkt)
    /\ FindEntry(sender_window, r_pkt.body.packet_number) # 0
    /\ sender_window' = Pop(sender_window, FindEntry(sender_window, r_pkt.body.packet_number))
    /\ r_tmp' = Grown(sender_window_size, exponential_growth)
    /\ rpc' = "ack_write"
    /\ UNCHANGED <<hvars, kvars, recv_call, s_acks, nvars, is_closed, max_window_size, send_buffer, sender_window_size,
                   ack_list, exponential_growth, packet_number, recv_buffer, spc,
                   has_loss, s_tmp, r_pkt, close_pc, net_in, net_out, ack_sent,
                   returned, sends, peer_sends>>

\* handle_ack, lines 360/362: the store of the grown size.
HandleAckWrite ==
    /\ rpc = "ack_write"
    /\ sender_window_size' = r_tmp
    /\ r_tmp' = 0
    /\ rpc' = "ack_clamp"
    /\ UNCHANGED <<hvars, kvars, recv_call, s_acks, nvars, is_closed, max_window_size, send_buffer, sender_window, ack_list,
                   exponential_growth, packet_number, recv_buffer, spc, has_loss,
                   s_tmp, r_pkt, close_pc, net_in, net_out, ack_sent, returned,
                   sends, peer_sends>>

\* A handle_ack without lines 364-365.
Unclamped(size, maximum) == size

\* handle_ack, lines 364-365.
Clamped(size, maximum) == IF size > maximum THEN maximum ELSE size

HandleAckClamp ==
    /\ rpc = "ack_clamp"
    /\ sender_window_size' = Clamped(sender_window_size, max_window_size)
    /\ rpc' = "ack_ssthresh"
    /\ UNCHANGED <<hvars, kvars, recv_call, s_acks, nvars, is_closed, max_window_size, send_buffer, sender_window, ack_list,
                   exponential_growth, packet_number, recv_buffer, spc, has_loss,
                   s_tmp, r_pkt, r_tmp, close_pc, net_in, net_out, ack_sent,
                   returned, sends, peer_sends>>

\* handle_ack, lines 367-368.
HandleAckSsthresh ==
    /\ rpc = "ack_ssthresh"
    /\ exponential_growth' = IF sender_window_size > SSTHRESH THEN FALSE
                             ELSE exponential_growth
    /\ rpc' = "loop"
    /\ r_pkt' = NoPacket
    /\ UNCHANGED <<hvars, kvars, recv_call, s_acks, nvars, is_closed, max_window_size, send_buffer, sender_window_size,
                   sender_window, ack_list, packet_number, recv_buffer, spc,
                   has_loss, s_tmp, r_tmp, close_pc, net_in, net_out, ack_sent,
                   returned, sends, peer_sends>>

\* A handle_stream that acknowledges the frame's stream id instead of the
\* packet's number.
HandleStreamAcksStream ==
    /\ rpc = "dispatch"
    /\ IsStream(r_pkt)
    /\ recv_buffer' = DictAppend(recv_buffer, r_pkt.body.stream_id, r_pkt.body)
    /\ ack_list' = Append(ack_list, AckFrame(r_pkt.body.stream_id))
    /\ rpc' = "loop"
    /\ r_pkt' = NoPacket
    /\ UNCHANGED <<hvars, kvars, recv_call, s_acks, nvars, is_closed, max_window_size, send_buffer, sender_window_size,
                   sender_window, exponential_growth, packet_number, spc, has_loss,
                   s_tmp, r_tmp, close_pc, net_in, net_out, ack_sent, returned,
                   sends, peer_sends>>


\* handle_stream, lines 373-377.
HandleStream ==
    /\ rpc = "dispatch"
    /\ IsStream(r_pkt)
    /\ recv_buffer' = DictAppend(recv_buffer, r_pkt.body.stream_id, r_pkt.body)
    /\ ack_list' = Append(ack_list, AckFrame(r_pkt.packet_number))
    /\ rpc' = "loop"
    /\ r_pkt' = NoPacket
    /\ UNCHANGED <<hvars, kvars, recv_call, s_acks, nvars, is_closed, max_window_size, send_buffer, sender_window_size,
                   sender_window, exponential_growth, packet_number, spc, has_loss,
                   s_tmp, r_tmp, close_pc, net_in, net_out, ack_sent, returned,
                   sends, peer_sends>>

(***************************************************************************)
(* recv().                                                                 *)
(***************************************************************************)
\* sorted(frames, key=lambda f: f.offset): stable.
RECURSIVE InsertByOffset(_, _)
InsertByOffset(sorted, f) ==
    IF sorted = <<>> THEN <<f>>
    ELSE IF sorted[Len(sorted)].offset <= f.offset THEN Append(sorted, f)
    ELSE Append(InsertByOffset(SubSeq(sorted, 1, Len(sorted) - 1), f), sorted[Len(sorted)])

RECURSIVE SortedByOffset(_)
SortedByOffset(frames) ==
    IF frames = <<>> THEN <<>>
    ELSE InsertByOffset(SortedByOffset(SubSeq(frames, 1, Len(frames) - 1)),
                        frames[Len(frames)])

\* Lines 211-216: whether the loop over consecutive frames ends by its break.
GapFound(ordered) ==
    \E i \in 1..(Len(ordered) - 1) :
        ordered[i].offset + ordered[i].length # ordered[i + 1].offset

\* Lines 199-222: whether the scan returns the stream holding these frames.
\* The break of line 216 leaves only the inner loop: lines 219-222 run
\* whether or not a gap was found.
Returnable(frames) ==
    LET ordered == SortedByOffset(frames)
        broke == GapFound(ordered)
    IN /\ Len(frames) # 0
       /\ ordered[Len(ordered)].finished
       /\ ordered[1].offset = 0

RECURSIVE JoinData(_)
JoinData(ordered) ==
    IF ordered = <<>> THEN <<>>
    ELSE ByteCat(ordered[1].data, JoinData(Tail(ordered)))

\* The first stream of recv_buffer, in dictionary order, that the scan returns.
FirstReturnable(buffer) ==
    IF \E k \in 1..Len(buffer) : Returnable(buffer[k].frames)
    THEN CHOOSE k \in 1..Len(buffer) :
            /\ Returnable(buffer[k].frames)
            /\ \A j \in 1..(k - 1) : ~Returnable(buffer[j].frames)
    ELSE 0

\* A recv() whose loop is not ended by is_closed: it returns complete streams
\* only.
RecvUntilComplete ==
    /\ Len(returned) < MaxReturns
    /\ FirstReturnable(recv_buffer) # 0
    /\ returned' = Append(returned,
          [stream_id |-> recv_buffer[FirstReturnable(recv_buffer)].sid,
           data |-> JoinData(SortedByOffset(
                       recv_buffer[FirstReturnable(recv_buffer)].frames)),
           frames |-> SortedByOffset(recv_buffer[FirstReturnable(recv_buffer)].frames)])
    /\ recv_buffer' = DictDel(recv_buffer, recv_buffer[FirstReturnable(recv_buffer)].sid)
    /\ UNCHANGED <<hvars, kvars, recv_call, s_acks, nvars, is_closed, max_window_size, send_buffer, sender_window_size,
                   sender_window, ack_list, exponential_growth, packet_number, spc,
                   has_loss, s_tmp, rpc, r_pkt, r_tmp, close_pc, net_in, net_out,
                   ack_sent, sends, peer_sends>>

\* One iteration of the polling loop of recv() that returns: a complete
\* stream, or (-1, b"") once is_closed.  (Otherwise it sleeps and polls again.)
Recv ==
    /\ Len(returned) < MaxReturns
    /\ IF is_closed
       THEN /\ returned' = Append(returned, [stream_id |-> -1, data |-> <<>>,
                                                 frames |-> <<>>])
            /\ UNCHANGED recv_buffer
       ELSE LET k == FirstReturnable(recv_buffer)
            IN /\ k # 0
               /\ returned' = Append(returned,
                     [stream_id |-> recv_buffer[k].sid,
                      data |-> JoinData(SortedByOffset(recv_buffer[k].frames)),
                      frames |-> SortedByOffset(recv_buffer[k].frames)])
               /\ recv_buffer' = DictDel(recv_buffer, recv_buffer[k].sid)
    /\ UNCHANGED <<hvars, kvars, recv_call, s_acks, nvars, is_closed, max_window_size, send_buffer, sender_window_size,
                   sender_window, ack_list, exponential_growth, packet_number, spc,
                   has_loss, s_tmp, rpc, r_pkt, r_tmp, close_pc, net_in, net_out,
                   ack_sent, sends, peer_sends>>

(***************************************************************************)
(* close().                                                                *)
(***************************************************************************)
\* Line 233.
Close ==
    /\ close_pc = "idle"
    /\ is_closed' = TRUE
    /\ close_pc' = "join_sender"
    /\ UNCHANGED <<hvars, kvars, recv_call, s_acks, nvars, max_window_size, send_buffer, sender_window_size, sender_window,
                   ack_list, exponential_growth, packet_number, recv_buffer, spc,
                   has_loss, s_tmp, rpc, r_pkt, r_tmp, net_in, net_out, ack_sent,
                   returned, sends, peer_sends>>

\* Line 234: self.sender.join().
CloseJoinSender ==
    /\ close_pc = "join_sender"
    /\ spc = "done"
    /\ close_pc' = "join_receiver"
    /\ UNCHANGED <<hvars, kvars, recv_call, s_acks, nvars, is_closed, max_window_size, send_buffer, sender_window_size,
                   sender_window, ack_list, exponential_growth, packet_number,
                   recv_buffer, spc, has_loss, s_tmp, rpc, r_pkt, r_tmp, net_in,
                   net_out, ack_sent, returned, sends, peer_sends>>

\* Line 235: self.receiver.join().
CloseJoinReceiver ==
    /\ close_pc = "join_receiver"
    /\ rpc \in {"done", "crashed"}
    /\ close_pc' = "returned"
    /\ UNCHANGED <<hvars, kvars, recv_call, s_acks, nvars, is_closed, max_window_size, send_buffer, sender_window_size,
                   sender_window, ack_list, exponential_growth, packet_number,
                   recv_buffer, spc, has_loss, s_tmp, rpc, r_pkt, r_tmp, net_in,
                   net_out, ack_sent, returned, sends, peer_sends>>

(***************************************************************************)
(* The peer and the network.                                               *)
(***************************************************************************)
\* The streams the peer sends, each once: stream 1 in three frames [0,100),
\* [100,250), [250,300), the last one finished, in the peer's packets 2, 3 and 4;
\* stream 2 in the single frame [0,50) of packet 5.
PeerBuffer(sid) == IF sid = 1 THEN "peer1" ELSE "peer2"
PeerFrame(sid, lo, hi, fin) ==
    [stream_id |-> sid, offset |-> lo, length |-> hi - lo, finished |-> fin,
     data |-> <<[src |-> PeerBuffer(sid), lo |-> lo, hi |-> hi]>>]
PeerPayload(sid, len) == <<[src |-> PeerBuffer(sid), lo |-> 0, hi |-> len]>>
PeerStream1 == { StreamPacket(2, PeerFrame(1, 0, 100, FALSE)),
                 StreamPacket(3, PeerFrame(1, 100, 250, FALSE)),
                 StreamPacket(4, PeerFrame(1, 250, 300, TRUE)) }
PeerStream2 == { StreamPacket(5, PeerFrame(2, 0, 50, TRUE)) }
PeerStream == PeerStream1 \cup PeerStream2
\* What the peer may put on the wire: its stream packets, and a stale copy of
\* its last handshake packet.
PeerDatagrams == PeerStream \cup {InitialPacket(1)}

\* The peer sends or retransmits datagram p, or the network duplicates it.
PeerSend(p) ==
    /\ peer_sends < MaxPeerSends
    /\ p \in PeerDatagrams
    /\ p \notin net_in
    /\ net_in' = net_in \cup {p}
    /\ peer_sends' = peer_sends + 1
    /\ UNCHANGED <<hvars, kvars, recv_call, s_acks, nvars, is_closed, max_window_size, send_buffer, sender_window_size,
                   sender_window, ack_list, exponential_growth, packet_number,
                   recv_buffer, spc, has_loss, s_tmp, rpc, r_pkt, r_tmp, close_pc,
                   net_out, ack_sent, returned, sends>>

\* The peer receives stream packet p and acknowledges its packet number (the
\* peer's handle_stream and sender_thread).  The receiver reads no header
\* packet number of an Ack packet.
PeerReceive(p) ==
    /\ p \in net_out
    /\ net_out' = net_out \ {p}
    /\ net_in' = net_in \cup {AckPacket(0, p.packet_number)}
    /\ UNCHANGED <<hvars, kvars, recv_call, s_acks, nvars, is_closed, max_window_size, send_buffer, sender_window_size,
                   sender_window, ack_list, exponential_growth, packet_number,
                   recv_buffer, spc, has_loss, s_tmp, rpc, r_pkt, r_tmp, close_pc,
                   ack_sent, returned, sends, peer_sends>>

\* The network loses a datagram.
LoseOut(p) ==
    /\ p \in net_out
    /\ net_out' = net_out \ {p}
    /\ UNCHANGED <<hvars, kvars, recv_call, s_acks, nvars, is_closed, max_window_size, send_buffer, sender_window_size,
                   sender_window, ack_list, exponential_growth, packet_number,
                   recv_buffer, spc, has_loss, s_tmp, rpc, r_pkt, r_tmp, close_pc,
                   net_in, ack_sent, returned, sends, peer_sends>>

LoseIn(p) ==
    /\ p \in net_in
    /\ net_in' = net_in \ {p}
    /\ UNCHANGED <<hvars, kvars, recv_call, s_acks, nvars, is_closed, max_window_size, send_buffer, sender_window_size,
                   sender_window, ack_list, exponential_growth, packet_number,
                   recv_buffer, spc, has_loss, s_tmp, rpc, r_pkt, r_tmp, close_pc,
                   net_out, ack_sent, returned, sends, peer_sends>>

(***************************************************************************)
(* The connection after accept_one: QuicConnection.__init__(sock, w, 1).   *)
(***************************************************************************)
\* No object is being encoded or decoded.
NoObject == [kind |-> "none"]
CodecIdle ==
    /\ k_obj = NoObject
    /\ k_wire = <<>>
    /\ k_out = NoObject

\* No call of recv() is scanning recv_buffer.
NoScan == [pc |-> "idle", used |-> 0, i |-> 0, stream_id |-> 0, ordered_frames |-> <<>>]

\* What connect_to or accept_one has returned: nothing yet, or None.
\* No run of hw4 is in progress.
NoRun ==
    /\ algo = "none"
    /\ link_cost = <<>>
    /\ routers = <<>>
    /\ is_converged = FALSE
    /\ shortest_paths = <<>>
    /\ records = <<>>
    /\ logs = <<>>

NoResult == [result |-> "none"]
ReturnedNone == [result |-> "None"]

\* connect_to and accept_one have returned; nothing of the handshake is left
\* on the wire.
HandshakeOver ==
    /\ c_pc = "returned"
    /\ c_conn = NoResult
    /\ a_pc = "returned"
    /\ a_addr = "none"
    /\ a_conn = NoResult
    /\ to_server = {}
    /\ to_client = {}
    /\ strays = 0

ConnInit(window, first_packet_number) ==
    /\ is_closed = FALSE
    /\ max_window_size = window
    /\ send_buffer = <<>>
    /\ sender_window_size = 4
    /\ sender_window = <<>>
    /\ ack_list = <<>>
    /\ exponential_growth = TRUE
    /\ packet_number = first_packet_number
    /\ recv_buffer = <<>>
    /\ spc = "admit"
    /\ has_loss = FALSE
    /\ s_tmp = 0
    /\ rpc = "loop"
    /\ r_pkt = NoPacket
    /\ r_tmp = 0
    /\ close_pc = "idle"
    /\ net_in = {}
    /\ net_out = {}
    /\ ack_sent = <<>>
    /\ returned = <<>>
    /\ sends = 0
    /\ peer_sends = 0
    /\ side = (IF first_packet_number = 2 THEN "client" ELSE "server")
    /\ HandshakeOver
    /\ CodecIdle
    /\ recv_call = NoScan
    /\ s_acks = <<>>
    /\ NoRun

Init == \E w \in AdvertisedWindows : ConnInit(w, 1)

SenderStep ==
    \/ SenderAdmit
    \/ SenderSend
    \/ SenderLossRead
    \/ SenderLossWrite
    \/ SenderAcks
    \/ SenderCheck

ReceiverStep ==
    \/ ReceiverExit
    \/ \E p \in net_in : ReceiverRecv(p)
    \/ ReceiverRefused
    \/ ReceiverInitial
    \/ HandleAckMiss
    \/ HandleAckPop
    \/ HandleAckWrite
    \/ HandleAckClamp
    \/ HandleAckSsthresh
    \/ HandleStream

CallerStep ==
    \/ \E sid \in SendStreams, d \in SendData : Send(sid, d)
    \/ Recv
    \/ Close
    \/ CloseJoinSender
    \/ CloseJoinReceiver

NetworkStep ==
    \/ \E p \in PeerDatagrams : PeerSend(p)
    \/ \E p \in net_out : PeerReceive(p)
    \/ \E p \in net_out : LoseOut(p)
    \/ \E p \in net_in : LoseIn(p)
    \/ Tick

Next == SenderStep \/ ReceiverStep \/ CallerStep \/ NetworkStep

Spec == Init /\ [][Next]_vars

\* The receiving side: the peer sends its stream, the caller polls recv().
NextRecv ==
    \/ SenderAdmit
    \/ SenderSend
    \/ SenderAcks
    \/ SenderCheck
    \/ \E p \in net_in : ReceiverRecv(p)
    \/ ReceiverInitial
    \/ HandleStream
    \/ Recv
    \/ \E p \in PeerDatagrams : PeerSend(p)

SpecRecv == ConnInit(RECEIVE_SIZE, 1) /\ [][NextRecv]_vars

\* The sending side: the caller calls send(), the peer acknowledges.
NextSend ==
    \/ SenderStep
    \/ \E p \in net_in : ReceiverRecv(p)
    \/ HandleAckMiss
    \/ HandleAckPop
    \/ HandleAckWrite
    \/ HandleAckClamp
    \/ HandleAckSsthresh
    \/ \E sid \in SendStreams : Send(sid, Hello)
    \/ \E p \in net_out : PeerReceive(p)
    \/ Tick

SpecSend == ConnInit(RECEIVE_SIZE, 1) /\ [][NextSend]_vars

\* The sending side, for every window a peer may advertise.
SpecWindow == Init /\ [][NextSend]_vars

(***************************************************************************)
(* Claims.                                                                 *)
(***************************************************************************)
StreamReturns(sid) == { i \in 1..Len(returned) : returned[i].stream_id = sid }

\* C1: whenever recv() returns a stream (stream_id >= 0), the frames it
\* joined, sorted by offset, start at offset 0, have no gap between
\* consecutive frames and end with the finished frame.
C1_ReturnedWithoutGaps ==
    \A i \in 1..Len(returned) :
        returned[i].stream_id >= 0 =>
            LET ordered == returned[i].frames
            IN /\ ordered[1].offset = 0
               /\ \A j \in 1..(Len(ordered) - 1) :
                     ordered[j].offset + ordered[j].length = ordered[j + 1].offset
               /\ ordered[Len(ordered)].finished

\* How many copies of peer datagram p have reached this side so far: on the
\* wire, read by the receiver, buffered, or already joined by recv().
RECURSIVE CountIn(_, _)
CountIn(frames, f) ==
    IF frames = <<>> THEN 0
    ELSE (IF Head(frames) = f THEN 1 ELSE 0) + CountIn(Tail(frames), f)

RECURSIVE CountInAll(_, _)
CountInAll(entries, f) ==
    IF entries = <<>> THEN 0
    ELSE CountIn(Head(entries).frames, f) + CountInAll(Tail(entries), f)

Copies(p) ==
    (IF p \in net_in THEN 1 ELSE 0) + (IF r_pkt = p THEN 1 ELSE 0)
    + CountInAll(recv_buffer, p.body) + CountInAll(returned, p.body)

DeliveredOnce == \A p \in PeerStream : Copies(p) <= 1

\* C2: when each of the three frames [0,100), [100,250), [250,300,finished]
\* of stream 1 arrives once, in any order, with recv() polling at any point,
\* what recv() returns for stream 1 is the three payloads joined in offset
\* order.
C2_PermutedArrival ==
    DeliveredOnce =>
        \A i \in StreamReturns(1) : returned[i].data = PeerPayload(1, 300)

\* C3: a stream the peer sends once is returned by recv() at most once and no
\* payload byte is returned twice, also when its packets arrive more than
\* once.
C3_ExactlyOnce ==
    \A sid \in {1, 2} :
        /\ Cardinality(StreamReturns(sid)) <= 1
        /\ \A i \in StreamReturns(sid) :
              \A a, b \in 1..Len(returned[i].frames) :
                  a # b => returned[i].frames[a] # returned[i].frames[b]

\* C5: in every state of a connection 1 <= sender_window_size <=
\* max_window_size.
C5_WindowBounds ==
    /\ sender_window_size >= 1
    /\ sender_window_size <= max_window_size

\* C6: the loss step of sender_thread (line 287-288) stores max(1, previous
\* // 2), previous being the size the statement read, and ends slow start;
\* slow start, once ended, never begins again.
C6_LossHalves ==
    [][ /\ (spc = "loss_read" /\ spc' = "loss_write") => s_tmp' = sender_window_size
        /\ (spc = "loss_write" /\ spc' = "acks") =>
              /\ sender_window_size' = Max(1, s_tmp \div 2)
              /\ ~exponential_growth'
        /\ ~exponential_growth => ~exponential_growth' ]_vars

\* A retransmission has just halved the window down to its floor.
C6_Witness ==
    /\ spc = "acks"
    /\ has_loss
    /\ sender_window_size = 1
    /\ ~exponential_growth

AckMisses == IsAck(r_pkt) /\ FindEntry(sender_window, r_pkt.body.packet_number) = 0
AckHits == IsAck(r_pkt) /\ FindEntry(sender_window, r_pkt.body.packet_number) # 0

\* C7: handle_ack for a packet number that is not in sender_window returns at
\* once and leaves sender_window, sender_window_size and exponential_growth
\* as they are; handle_ack for a packet number in the window leaves no entry
\* with that number, so that the same ACK applied again is such a no-op.
C7_AckIdempotent ==
    [][ /\ (rpc = "dispatch" /\ AckMisses /\ rpc' # "dispatch") =>
              /\ rpc' = "loop"
              /\ UNCHANGED <<hvars, kvars, recv_call, s_acks, nvars, sender_window, sender_window_size, exponential_growth>>
        /\ (rpc = "dispatch" /\ AckHits /\ rpc' # "dispatch") =>
              /\ Len(sender_window') = Len(sender_window) - 1
              /\ FindEntry(sender_window', r_pkt.body.packet_number) = 0 ]_vars

\* The ACK of a packet that was acknowledged before (its entry is gone, the
\* window has grown once) is about to be applied again.
C7_Witness ==
    /\ rpc = "dispatch"
    /\ AckMisses
    /\ r_pkt.body.packet_number < packet_number
    /\ sender_window_size = 8

\* Closing: the caller sends, polls recv() and calls close(); the peer sends
\* stream 2 and acknowledges.
NextClose ==
    \/ SenderAdmit
    \/ SenderSend
    \/ SenderAcks
    \/ SenderCheck
    \/ ReceiverExit
    \/ \E p \in net_in : ReceiverRecv(p)
    \/ ReceiverRefused
    \/ HandleAckPop
    \/ HandleAckWrite
    \/ HandleAckClamp
    \/ HandleAckSsthresh
    \/ HandleStream
    \/ Send(7, Hello)
    \/ Close
    \/ CloseJoinSender
    \/ CloseJoinReceiver
    \/ \E p \in PeerStream2 : PeerSend(p)
    \/ \E p \in net_out : PeerReceive(p)

SpecClose == ConnInit(RECEIVE_SIZE, 1) /\ [][NextClose]_vars

\* The two workers and the caller's close() are threads that keep running;
\* nothing is assumed of the network or of the peer.
SpecCloseFair ==
    /\ SpecClose
    /\ WF_vars(SenderStep)
    /\ WF_vars(ReceiverStep)
    /\ WF_vars(CloseJoinSender \/ CloseJoinReceiver)

\* C8: every AckFrame the receiver worker queues is sent before the sender
\* worker exits: once sender_thread has returned, no AckFrame is in ack_list.
C8_AcksFlushed == spc = "done" => Len(ack_list) = 0

WorkersDone == spc = "done" /\ rpc = "done"

\* C9: once is_closed is set both workers terminate, and close() returns only
\* after both have.
C9_CloseTerminates ==
    /\ [](close_pc = "returned" => WorkersDone)
    /\ (is_closed ~> WorkersDone)

\* close() has returned while frames were still queued and a sent packet was
\* still unacknowledged.
C9_Witness ==
    /\ close_pc = "returned"
    /\ \E i \in 1..Len(send_buffer) : send_buffer[i].frames # <<>>
    /\ \E i \in 1..Len(sender_window) : sender_window[i].sent_time # "zero"

(***************************************************************************)
(* Reliable delivery over a lossy network.                                 *)
(***************************************************************************)
\* The caller calls send() on stream 7, the peer acknowledges what reaches
\* it, the network may lose a datagram in either direction, time passes.
NextLossy ==
    \/ SenderStep
    \/ \E p \in net_in : ReceiverRecv(p)
    \/ HandleAckMiss
    \/ HandleAckPop
    \/ HandleAckWrite
    \/ HandleAckClamp
    \/ HandleAckSsthresh
    \/ \E data \in {Hello, Bye} : Send(7, data)
    \/ \E p \in net_out : PeerReceive(p)
    \/ \E p \in net_out : LoseOut(p)
    \/ \E p \in net_in : LoseIn(p)
    \/ Tick

SpecLossy == ConnInit(RECEIVE_SIZE, 1) /\ [][NextLossy]_vars

\* Packet numbers of the stream packets of MaxSends one-frame payloads.
StreamPacketNumbers == 1..MaxSends

\* Both workers keep running and time passes (weak fairness); a stream packet
\* that is sent again and again reaches the peer, and an acknowledgement that
\* is sent again and again is read by the receiver worker (strong fairness,
\* per packet number).
SpecLossyFair ==
    /\ SpecLossy
    /\ WF_vars(SenderStep)
    /\ WF_vars(HandleAckMiss \/ HandleAckPop \/ HandleAckWrite
                 \/ HandleAckClamp \/ HandleAckSsthresh)
    /\ WF_vars(Tick)
    /\ \A n \in StreamPacketNumbers :
          /\ SF_vars(\E p \in net_out : p.packet_number = n /\ PeerReceive(p))
          /\ SF_vars(\E p \in net_in : p.body.packet_number = n /\ ReceiverRecv(p))

InBuffer(f) ==
    \E i \in 1..Len(send_buffer) :
        \E j \in 1..Len(send_buffer[i].frames) : send_buffer[i].frames[j] = f

InWindow(f) == \E i \in 1..Len(sender_window) : sender_window[i].frame = f

\* C4: every frame send() puts into send_buffer is eventually admitted to
\* sender_window, and every frame in sender_window is eventually acknowledged
\* and removed, so that sender_window is empty again and again.
C4_EveryFrameDelivered ==
    /\ \A data \in {Hello, Bye} :
          LET f == Fragment(7, data, 0)[1]
          IN /\ InBuffer(f) ~> InWindow(f)
             /\ InWindow(f) ~> ~InWindow(f)
    /\ []<>(sender_window = <<>>)

(***************************************************************************)
(* The handshake: connect_to (client "A") and accept_one (server).         *)
(***************************************************************************)
\* An Initial packet carrying an Ack frame.
HandshakePacket(hpn, apn, window) ==
    [packet_type |-> "Initial", packet_number |-> hpn, frame_type |-> "Ack",
     body |-> [packet_number |-> apn, window_size |-> window]]

\* b"": what `if not data` tests.
EmptyDatagram == [packet_type |-> "Empty"]

\* Datagrams of a peer that is not this implementation: a client at address
\* "B" that advertises a window of 6, and packets that are no valid handshake
\* packet.
ForeignPackets ==
    { HandshakePacket(0, 0, 6),
      HandshakePacket(1, 1, 6),
      HandshakePacket(1, 0, 6),
      [packet_type |-> "Initial", packet_number |-> 1, frame_type |-> "Stream",
       body |-> [stream_id |-> 0]],
      AckPacket(1, 0),
      EmptyDatagram }

\* The checks without the last one: any Initial packet with an Ack frame.
ValidHandshakeAnyAck(pkt) ==
    /\ pkt.packet_type = "Initial"
    /\ pkt.frame_type = "Ack"

\* The checks of lines 136-154 and 93-113 on a received datagram: not empty,
\* an Initial packet, an Ack frame, acking the header's packet number.
ValidHandshake(pkt) ==
    /\ pkt.packet_type = "Initial"
    /\ pkt.frame_type = "Ack"
    /\ pkt.body.packet_number = pkt.packet_number

\* connect_to, lines 123-132: the first Initial.
ConnectSend ==
    /\ c_pc = "start"
    /\ to_server' = to_server \cup
                      {[addr |-> "A", pkt |-> HandshakePacket(0, 0, RECEIVE_SIZE)]}
    /\ c_pc' = "recv"
    /\ UNCHANGED <<cvars, kvars, recv_call, nvars, side, c_conn, a_pc, a_addr, a_conn, to_client, strays>>

\* connect_to, lines 135-164: sock.recv returns datagram d; on a valid reply
\* the final Initial is sent and the connection is made from the Ack frame
\* of that final Initial (`ack` was reassigned at line 159).
ConnectRecv(d) ==
    /\ c_pc = "recv"
    /\ d \in to_client
    /\ d.addr = "A"
    /\ to_client' = to_client \ {d}
    /\ IF ValidHandshake(d.pkt)
       THEN LET final == HandshakePacket(1, 1, RECEIVE_SIZE)
            IN /\ to_server' = to_server \cup {[addr |-> "A", pkt |-> final]}
               /\ c_conn' = [result |-> "connection",
                             max_window_size |-> final.body.window_size,
                             packet_number |-> 2]
               /\ c_pc' = "returned"
       ELSE /\ c_pc' = "raised"
            /\ UNCHANGED <<to_server, c_conn>>
    /\ UNCHANGED <<cvars, kvars, recv_call, nvars, side, a_pc, a_addr, a_conn, strays>>

\* connect_to, line 135: no process is bound to the server's port and the
\* ICMP error of the first Initial reaches the connected socket: sock.recv
\* raises ConnectionRefusedError.
ConnectRefused ==
    /\ c_pc = "recv"
    /\ a_pc = "absent"
    /\ c_pc' = "raised"
    /\ UNCHANGED <<cvars, kvars, recv_call, nvars, side, c_conn, a_pc, a_addr, a_conn, to_server, to_client, strays>>

\* accept_one, lines 72-89: the first recvfrom; an Initial packet is answered
\* with Initial 0 / Ack 0 to its sender.
AcceptFirst(d) ==
    /\ a_pc = "recv_first"
    /\ d \in to_server
    /\ to_server' = to_server \ {d}
    /\ IF d.pkt.packet_type = "Initial"
       THEN /\ to_client' = to_client \cup
                              {[addr |-> d.addr, pkt |-> HandshakePacket(0, 0, RECEIVE_SIZE)]}
            /\ a_addr' = d.addr
            /\ a_pc' = "recv_second"
            /\ UNCHANGED a_conn
       ELSE /\ a_conn' = ReturnedNone
            /\ a_pc' = "returned"
            /\ UNCHANGED <<to_client, a_addr>>
    /\ UNCHANGED <<cvars, kvars, recv_call, nvars, side, c_pc, c_conn, strays>>

\* accept_one, lines 92-117: the second recvfrom, from whatever address; the
\* connection is made from its Ack frame and connected to its sender.
AcceptSecond(d) ==
    /\ a_pc = "recv_second"
    /\ d \in to_server
    /\ to_server' = to_server \ {d}
    /\ a_conn' = IF ValidHandshake(d.pkt)
                 THEN [result |-> "connection",
                       max_window_size |-> d.pkt.body.window_size,
                       packet_number |-> 1, addr |-> d.addr]
                 ELSE ReturnedNone
    /\ a_pc' = "returned"
    /\ UNCHANGED <<cvars, kvars, recv_call, nvars, side, c_pc, c_conn, a_addr, to_client, strays>>

\* The network loses a handshake datagram.
LoseToServer(d) ==
    /\ d \in to_server
    /\ to_server' = to_server \ {d}
    /\ UNCHANGED <<cvars, kvars, recv_call, nvars, side, c_pc, c_conn, a_pc, a_addr, a_conn, to_client, strays>>

LoseToClient(d) ==
    /\ d \in to_client
    /\ to_client' = to_client \ {d}
    /\ UNCHANGED <<cvars, kvars, recv_call, nvars, side, c_pc, c_conn, a_pc, a_addr, a_conn, to_server, strays>>

\* Another implementation at address "B" sends the server a datagram.
StrayToServer(pkt) ==
    /\ strays < MaxStrays
    /\ a_pc # "absent"
    /\ strays' = strays + 1
    /\ to_server' = to_server \cup {[addr |-> "B", pkt |-> pkt]}
    /\ UNCHANGED <<cvars, kvars, recv_call, nvars, side, c_pc, c_conn, a_pc, a_addr, a_conn, to_client>>

\* The server the client connects to is another implementation: it answers
\* with a datagram of its own.
StrayToClient(pkt) ==
    /\ strays < MaxStrays
    /\ a_pc = "absent"
    /\ c_pc = "recv"
    /\ strays' = strays + 1
    /\ to_client' = to_client \cup {[addr |-> "A", pkt |-> pkt]}
    /\ UNCHANGED <<cvars, kvars, recv_call, nvars, side, c_pc, c_conn, a_pc, a_addr, a_conn, to_server>>

\* The network delivers one more copy of the client's first Initial.
DuplicateFirst ==
    /\ strays < MaxStrays
    /\ c_pc # "start"
    /\ a_pc # "absent"
    /\ [addr |-> "A", pkt |-> HandshakePacket(0, 0, RECEIVE_SIZE)] \notin to_server
    /\ strays' = strays + 1
    /\ to_server' = to_server \cup
                      {[addr |-> "A", pkt |-> HandshakePacket(0, 0, RECEIVE_SIZE)]}
    /\ UNCHANGED <<cvars, kvars, recv_call, nvars, side, c_pc, c_conn, a_pc, a_addr, a_conn, to_client>>

\* No connection exists yet: no worker thread has been started.
NoConnection ==
    /\ is_closed = FALSE
    /\ max_window_size = 0
    /\ send_buffer = <<>>
    /\ sender_window_size = 0
    /\ sender_window = <<>>
    /\ ack_list = <<>>
    /\ exponential_growth = FALSE
    /\ packet_number = 0
    /\ recv_buffer = <<>>
    /\ spc = "none"
    /\ has_loss = FALSE
    /\ s_tmp = 0
    /\ rpc = "none"
    /\ r_pkt = NoPacket
    /\ r_tmp = 0
    /\ close_pc = "none"
    /\ net_in = {}
    /\ net_out = {}
    /\ ack_sent = <<>>
    /\ returned = <<>>
    /\ sends = 0
    /\ peer_sends = 0

\* connect_to is about to be called; the server has called accept_one, or no
\* process of this implementation listens at the server's address.
HandshakeInit ==
    /\ NoConnection
    /\ c_pc = "start"
    /\ c_conn = NoResult
    /\ a_pc \in {"recv_first", "absent"}
    /\ a_addr = "none"
    /\ a_conn = NoResult
    /\ to_server = {}
    /\ to_client = {}
    /\ strays = 0
    /\ side = "none"
    /\ CodecIdle
    /\ recv_call = NoScan
    /\ s_acks = <<>>
    /\ NoRun

ConnectStep ==
    \/ ConnectSend
    \/ \E d \in to_client : ConnectRecv(d)
    \/ ConnectRefused

AcceptStep ==
    \/ \E d \in to_server : AcceptFirst(d)
    \/ \E d \in to_server : AcceptSecond(d)

NextHandshake ==
    \/ ConnectStep
    \/ AcceptStep
    \/ \E d \in to_server : LoseToServer(d)
    \/ \E d \in to_client : LoseToClient(d)
    \/ \E pkt \in ForeignPackets : StrayToServer(pkt)
    \/ \E pkt \in ForeignPackets : StrayToClient(pkt)
    \/ DuplicateFirst

SpecHandshake == HandshakeInit /\ [][NextHandshake]_vars

\* connect_to and accept_one keep running whenever they can take a step;
\* nothing is assumed of the network.
SpecHandshakeFair ==
    /\ SpecHandshake
    /\ WF_vars(ConnectStep)
    /\ WF_vars(AcceptStep)

\* C10: connect_to always terminates: it returns a connection or raises.
C10_ConnectTerminates == <>(c_pc \in {"returned", "raised"})

\* C11: once accept_one has answered a first Initial, it returns (a
\* connection or None) also when no second datagram ever arrives.
C11_AcceptTerminates == (a_pc = "recv_second") ~> (a_pc = "returned")

\* C15: accept_one makes its connection only on receiving a final Initial,
\* the one with packet number 1.
C15_OnlyOnFinalInitial ==
    [][ \A d \in to_server :
          (to_server' = to_server \ {d} /\ a_pc = "recv_second"
             /\ a_conn'.result = "connection") => d.pkt.packet_number = 1 ]_vars

(***************************************************************************)
(* From the handshake to the connection.                                   *)
(***************************************************************************)
\* QuicConnection.__init__(sock, window, first_packet_number), lines 36-58,
\* called at line 164 (who = "client") or line 117 (who = "server"): the
\* fields are set and both worker threads are started.
Constructed(window, first_packet_number, who) ==
    /\ is_closed' = FALSE
    /\ max_window_size' = window
    /\ send_buffer' = <<>>
    /\ sender_window_size' = 4
    /\ sender_window' = <<>>
    /\ ack_list' = <<>>
    /\ exponential_growth' = TRUE
    /\ packet_number' = first_packet_number
    /\ recv_buffer' = <<>>
    /\ spc' = "admit"
    /\ rpc' = "loop"
    /\ close_pc' = "idle"
    /\ side' = who
    /\ UNCHANGED <<has_loss, s_tmp, r_pkt, r_tmp, net_in, net_out, ack_sent,
                   returned, sends, peer_sends>>

\* The connection variables follow the connection connect_to made.
ConstructClient ==
    /\ side = "none"
    /\ c_conn.result = "connection"
    /\ Constructed(c_conn.max_window_size, c_conn.packet_number, "client")
    /\ UNCHANGED <<kvars, recv_call, s_acks, nvars, c_pc, c_conn, a_pc, a_addr, a_conn, to_server, to_client,
                   strays>>

\* The connection variables follow the connection accept_one made.
ConstructServer ==
    /\ side = "none"
    /\ a_conn.result = "connection"
    /\ Constructed(a_conn.max_window_size, a_conn.packet_number, "server")
    /\ UNCHANGED <<kvars, recv_call, s_acks, nvars, c_pc, c_conn, a_pc, a_addr, a_conn, to_server, to_client,
                   strays>>

\* The handshake, then the caller of the new connection sends on stream 7.
NextEstablish ==
    \/ NextHandshake
    \/ ConstructClient
    \/ ConstructServer
    \/ (side # "none" /\ Send(7, Hello))
    \/ SenderAdmit
    \/ SenderSend
    \/ SenderAcks
    \/ SenderCheck

SpecEstablish == HandshakeInit /\ [][NextEstablish]_vars

\* accept_one has taken datagram d from its socket in this step.
AcceptTook(d) == d \in to_server /\ to_server' = to_server \ {d} /\ a_pc' # a_pc

FirstNumber == IF side = "client" THEN 2 ELSE 1
C13_PacketNumbers ==
    /\ [][ \A d \in to_server' \ to_server :
             (d.addr = "A" /\ c_pc' # c_pc) =>
                 d.pkt.packet_number = (IF c_pc = "start" THEN 0 ELSE 1) ]_vars
    /\ [](c_conn.result = "connection" => c_conn.packet_number = 2)
    /\ [](a_conn.result = "connection" => a_conn.packet_number = 1)
    /\ [](side # "none" =>
            /\ packet_number = FirstNumber + Len(sender_window)
            /\ \A i \in 1..Len(sender_window) :
                  sender_window[i].packet_number = FirstNumber + i - 1
            /\ \A p \in net_out : p.packet_number >= FirstNumber)

\* The client's connection has sent its first OneRTT packet.
C13_Witness == side = "client" /\ \E p \in net_out : p.packet_number = 2

\* C14: the client's max_window_size is the window of the server's reply,
\* the server's is the window of the client's final Initial.
C14_WindowsExchanged ==
    /\ [][ \A d \in to_client :
             (to_client' = to_client \ {d} /\ c_pc = "recv" /\ c_pc' = "returned") =>
                 c_conn'.max_window_size = d.pkt.body.window_size ]_vars
    /\ [][ \A d \in to_server :
             (AcceptTook(d) /\ a_conn'.result = "connection") =>
                 a_conn'.max_window_size = d.pkt.body.window_size ]_vars
    /\ [](side = "client" => max_window_size = c_conn.max_window_size)
    /\ [](side = "server" => max_window_size = a_conn.max_window_size)

(***************************************************************************)
(* packet.py: the four dataclasses and their ctypes structures.  Bytes are *)
(* the numbers 0..255, a buffer is a sequence of them.                     *)
(***************************************************************************)
\* Enum with auto(): members are numbered from 1 in the order written.
QuicPacketType == [Initial |-> 1, OneRTT |-> 2]
QuicFrameType == [Ack |-> 1, Stream |-> 2]
PacketTypeNames == {"Initial", "OneRTT"}
FrameTypeNames == {"Ack", "Stream"}
AckFrameSize == 8

\* A field of a BigEndianStructure: most significant byte first; a value too
\* wide for the field loses its high bytes.
RECURSIVE BigEndian(_, _)
BigEndian(n, width) ==
    IF width = 0 THEN <<>> ELSE Append(BigEndian(n \div 256, width - 1), n % 256)

\* The value of a big-endian field read from a buffer.
RECURSIVE FromBigEndian(_)
FromBigEndian(bytes) ==
    IF bytes = <<>> THEN 0
    ELSE FromBigEndian(SubSeq(bytes, 1, Len(bytes) - 1)) * 256 + bytes[Len(bytes)]

\* The layout of a packed structure: no padding between fields.
Packed(n) == <<>>
\* Padding that aligns the next field of a ctypes structure.
Pad(n) == [i \in 1..n |-> 0]

\* data[i:] of a buffer.
From(data, i) == SubSeq(data, i + 1, Len(data))
\* A Python bool stored in a c_uint8.
BoolByte(b) == IF b THEN 1 ELSE 0

ValueError == [kind |-> "ValueError"]

\* QuicPacketHeader.to_bytes: c_uint8 packet_type, c_uint32 packet_number.
PacketHeaderToBytes(x) ==
    <<QuicPacketType[x.packet_type]>> \o Pad(3) \o BigEndian(x.packet_number, 4)
\* QuicPacketHeader.from_bytes: from_buffer_copy raises ValueError on a buffer
\* shorter than the structure, QuicPacketType(v) on a value that is no member.
PacketHeaderFromBytes(data) ==
    IF Len(data) < PacketHeaderSize THEN ValueError
    ELSE IF \A t \in PacketTypeNames : QuicPacketType[t] # data[1] THEN ValueError
    ELSE [kind |-> "QuicPacketHeader",
          packet_type |-> CHOOSE t \in PacketTypeNames : QuicPacketType[t] = data[1],
          packet_number |-> FromBigEndian(SubSeq(data, 5, 8))]

\* QuicFrameHeader.to_bytes and from_bytes: c_uint8 frame_type.
FrameHeaderToBytes(x) == <<QuicFrameType[x.frame_type]>>
FrameHeaderFromBytes(data) ==
    IF Len(data) < FrameHeaderSize THEN ValueError
    ELSE IF \A t \in FrameTypeNames : QuicFrameType[t] # data[1] THEN ValueError
    ELSE [kind |-> "QuicFrameHeader",
          frame_type |-> CHOOSE t \in FrameTypeNames : QuicFrameType[t] = data[1]]

\* QuicAckFrame.to_bytes and from_bytes: c_uint32 packet_number, window_size.
AckFrameToBytes(x) == BigEndian(x.packet_number, 4) \o BigEndian(x.window_size, 4)
AckFrameFromBytes(data) ==
    IF Len(data) < AckFrameSize THEN ValueError
    ELSE [kind |-> "QuicAckFrame",
          packet_number |-> FromBigEndian(SubSeq(data, 1, 4)),
          window_size |-> FromBigEndian(SubSeq(data, 5, 8))]

\* QuicStreamFrame.to_bytes: c_uint32 stream_id, c_uint64 offset, c_uint16
\* length, c_uint8 finished, then the payload.
StreamFrameToBytes(x) ==
    BigEndian(x.stream_id, 4) \o Pad(4) \o BigEndian(x.offset, 8)
    \o BigEndian(x.length, 2) \o <<BoolByte(x.finished)>> \o Pad(5) \o x.data
\* QuicStreamFrame.from_bytes: finished comes back as the number stored.
StreamFrameFromBytes(data) ==
    IF Len(data) < StreamFrameSize THEN ValueError
    ELSE [kind |-> "QuicStreamFrame",
          stream_id |-> FromBigEndian(SubSeq(data, 1, 4)),
          offset |-> FromBigEndian(SubSeq(data, 9, 16)),
          length |-> FromBigEndian(SubSeq(data, 17, 18)),
          finished |-> data[19],
          data |-> From(data, StreamFrameSize)]

to_bytes(x) ==
    CASE x.kind = "QuicPacketHeader" -> PacketHeaderToBytes(x)
      [] x.kind = "QuicFrameHeader" -> FrameHeaderToBytes(x)
      [] x.kind = "QuicAckFrame" -> AckFrameToBytes(x)
      [] x.kind = "QuicStreamFrame" -> StreamFrameToBytes(x)

from_bytes(kind, data) ==
    CASE kind = "QuicPacketHeader" -> PacketHeaderFromBytes(data)
      [] kind = "QuicFrameHeader" -> FrameHeaderFromBytes(data)
      [] kind = "QuicAckFrame" -> AckFrameFromBytes(data)
      [] kind = "QuicStreamFrame" -> StreamFrameFromBytes(data)

\* The == of two dataclass instances of one class: the tuples of their fields
\* are equal; in Python True == 1 and False == 0.
DataclassEq(x, out) ==
    /\ out.kind = x.kind
    /\ CASE x.kind = "QuicPacketHeader" ->
               out.packet_type = x.packet_type /\ out.packet_number = x.packet_number
         [] x.kind = "QuicFrameHeader" -> out.frame_type = x.frame_type
         [] x.kind = "QuicAckFrame" ->
               out.packet_number = x.packet_number /\ out.window_size = x.window_size
         [] x.kind = "QuicStreamFrame" ->
               /\ out.stream_id = x.stream_id
               /\ out.offset = x.offset
               /\ out.length = x.length
               /\ out.finished = BoolByte(x.finished)
               /\ out.data = x.data

\* Field values the objects are built with: the ends of the field widths, as
\* far as the numbers of the model checker go, and the byte boundaries between.
Uint32Values == {0, 1, 255, 256, 65536, 2147483647}
Uint64Values == {0, 1467, 2147483647}
\* (length, payload) of a stream frame.
Payloads == { [length |-> 0, data |-> <<>>],
              [length |-> 3, data |-> <<1, 0, 255>>],
              [length |-> 65535, data |-> <<7>>] }
CodecObjects ==
    { [kind |-> "QuicPacketHeader", packet_type |-> t, packet_number |-> n] :
          t \in PacketTypeNames, n \in Uint32Values }
    \cup { [kind |-> "QuicFrameHeader", frame_type |-> t] : t \in FrameTypeNames }
    \cup { [kind |-> "QuicAckFrame", packet_number |-> n, window_size |-> w] :
          n \in {0, 1, 2147483647}, w \in {0, RECEIVE_SIZE, 2147483647} }
    \cup { [kind |-> "QuicStreamFrame", stream_id |-> s, offset |-> o,
            length |-> p.length, finished |-> f, data |-> p.data] :
          s \in {0, 7}, o \in Uint64Values, p \in Payloads, f \in BOOLEAN }

\* The caller builds the object x.
CodecNew(x) ==
    /\ k_obj = NoObject
    /\ k_obj' = x
    /\ UNCHANGED <<cvars, hvars, recv_call, nvars, k_wire, k_out>>
\* x.to_bytes()
CodecToBytes ==
    /\ k_obj # NoObject
    /\ k_wire = <<>>
    /\ k_wire' = to_bytes(k_obj)
    /\ UNCHANGED <<cvars, hvars, recv_call, nvars, k_obj, k_out>>
\* cls.from_bytes(...) on what to_bytes returned
CodecFromBytes ==
    /\ k_wire # <<>>
    /\ k_out = NoObject
    /\ k_out' = from_bytes(k_obj.kind, k_wire)
    /\ UNCHANGED <<cvars, hvars, recv_call, nvars, k_obj, k_wire>>

NextCodec ==
    \/ \E x \in CodecObjects : CodecNew(x)
    \/ CodecToBytes
    \/ CodecFromBytes
SpecCodec == ConnInit(RECEIVE_SIZE, 1) /\ [][NextCodec]_vars

\* C16: for each of the four classes, from_bytes(to_bytes(x)) == x for every
\* object whose field values fit the field widths, the stream frame with
\* offset 0, length 0, finished true and an empty payload among them; and
\* to_bytes returns as many bytes as the structure has, plus the payload.
C16_RoundTrip ==
    /\ k_out # NoObject => DataclassEq(k_obj, k_out)
    /\ k_wire # <<>> =>
         Len(k_wire) = (CASE k_obj.kind = "QuicPacketHeader" -> PacketHeaderSize
                          [] k_obj.kind = "QuicFrameHeader" -> FrameHeaderSize
                          [] k_obj.kind = "QuicAckFrame" -> AckFrameSize
                          [] k_obj.kind = "QuicStreamFrame" ->
                                StreamFrameSize + Len(k_obj.data))
C16_Witness ==
    /\ k_obj = [kind |-> "QuicStreamFrame", stream_id |-> 0, offset |-> 0,
                length |-> 0, finished |-> TRUE, data |-> <<>>]
    /\ k_out # NoObject
    /\ k_out.finished = 1

(***************************************************************************)
(* receiver_thread on the bytes of a datagram.                             *)
(***************************************************************************)
\* A datagram as the bytes read from the socket.
Raw(data) == [packet_type |-> "Raw", data |-> data]

\* Lines 324-343: what the decoders make of the bytes of a datagram, or the
\* ValueError one of them raises.  An Initial packet is decoded no further
\* than its header.
Datagram(data) ==
    LET header == PacketHeaderFromBytes(data)
        frame_header == FrameHeaderFromBytes(From(data, PacketHeaderSize))
        body == From(data, PacketHeaderSize + FrameHeaderSize)
        ack == AckFrameFromBytes(body)
        stream == StreamFrameFromBytes(body)
    IN IF header.kind = "ValueError" THEN ValueError
       ELSE IF header.packet_type = "Initial"
       THEN [packet_type |-> "Initial", packet_number |-> header.packet_number]
       ELSE IF frame_header.kind = "ValueError" THEN ValueError
       ELSE IF frame_header.frame_type = "Ack"
       THEN IF ack.kind = "ValueError" THEN ValueError
            ELSE [packet_type |-> "OneRTT", packet_number |-> header.packet_number,
                  frame_type |-> "Ack",
                  body |-> [packet_number |-> ack.packet_number,
                            window_size |-> ack.window_size]]
       ELSE IF stream.kind = "ValueError" THEN ValueError
            ELSE [packet_type |-> "OneRTT", packet_number |-> header.packet_number,
                  frame_type |-> "Stream",
                  body |-> [stream_id |-> stream.stream_id, offset |-> stream.offset,
                            length |-> stream.length, finished |-> stream.finished # 0,
                            data |-> stream.data]]

\* The peer's Ack packet for packet number 1, and its last handshake packet,
\* as bytes.
AckBytes ==
    PacketHeaderToBytes([packet_type |-> "OneRTT", packet_number |-> 0])
    \o FrameHeaderToBytes([frame_type |-> "Ack"])
    \o AckFrameToBytes(AckFrame(1))
InitialBytes ==
    PacketHeaderToBytes([packet_type |-> "Initial", packet_number |-> 1])
    \o FrameHeaderToBytes([frame_type |-> "Ack"])
    \o AckFrameToBytes(AckFrame(1))

\* Datagrams cut short or damaged on the way, and the empty datagram.
Truncated == { SubSeq(AckBytes, 1, n) : n \in {0, 5, PacketHeaderSize, 12} }
             \cup { SubSeq(InitialBytes, 1, PacketHeaderSize) }
Corrupt == { [AckBytes EXCEPT ![1] = 7], [AckBytes EXCEPT ![1] = 0],
             [AckBytes EXCEPT ![PacketHeaderSize + 1] = 0] }
RawDatagrams == { Raw(d) : d \in {AckBytes, InitialBytes} \cup Truncated \cup Corrupt }

\* Truncated or corrupt: shorter than the fixed header sizes or than the frame
\* it announces, or with a packet type or frame type that is no member.
Malformed(data) ==
    \/ Len(data) < PacketHeaderSize + FrameHeaderSize
    \/ \A t \in PacketTypeNames : QuicPacketType[t] # data[1]
    \/ \A t \in FrameTypeNames : QuicFrameType[t] # data[PacketHeaderSize + 1]
    \/ /\ data[PacketHeaderSize + 1] = QuicFrameType.Ack
       /\ Len(data) < PacketHeaderSize + FrameHeaderSize + AckFrameSize
    \/ /\ data[PacketHeaderSize + 1] = QuicFrameType.Stream
       /\ Len(data) < PacketHeaderSize + FrameHeaderSize + StreamFrameSize

\* The network delivers the bytes p to the socket.
PeerSendRaw(p) ==
    /\ peer_sends < MaxPeerSends
    /\ p \in RawDatagrams
    /\ p \notin net_in
    /\ net_in' = net_in \cup {p}
    /\ peer_sends' = peer_sends + 1
    /\ UNCHANGED <<hvars, kvars, recv_call, s_acks, nvars, is_closed, max_window_size, send_buffer, sender_window_size,
                   sender_window, ack_list, exponential_growth, packet_number,
                   recv_buffer, spc, has_loss, s_tmp, rpc, r_pkt, r_tmp, close_pc,
                   net_out, ack_sent, returned, sends>>

\* Lines 321-322: an empty datagram is skipped.
ReceiverEmpty ==
    /\ rpc = "dispatch"
    /\ r_pkt.packet_type = "Raw"
    /\ r_pkt.data = <<>>
    /\ rpc' = "loop"
    /\ r_pkt' = NoPacket
    /\ UNCHANGED <<hvars, kvars, recv_call, s_acks, nvars, is_closed, max_window_size, send_buffer, sender_window_size,
                   sender_window, ack_list, exponential_growth, packet_number,
                   recv_buffer, spc, has_loss, s_tmp, r_tmp, close_pc, net_in,
                   net_out, ack_sent, returned, sends, peer_sends>>

\* Lines 324-341: the decoders return; the packet goes on to lines 326-343.
ReceiverDecode ==
    /\ rpc = "dispatch"
    /\ r_pkt.packet_type = "Raw"
    /\ r_pkt.data # <<>>
    /\ Datagram(r_pkt.data) # ValueError
    /\ r_pkt' = Datagram(r_pkt.data)
    /\ UNCHANGED <<hvars, kvars, recv_call, s_acks, nvars, is_closed, max_window_size, send_buffer, sender_window_size,
                   sender_window, ack_list, exponential_growth, packet_number,
                   recv_buffer, spc, has_loss, s_tmp, rpc, r_tmp, close_pc, net_in,
                   net_out, ack_sent, returned, sends, peer_sends>>

\* Lines 324-341: a decoder raises ValueError.  The loop catches only
\* BlockingIOError and ConnectionRefusedError (lines 315-319), so the
\* exception ends the thread; is_closed stays as it is.
ReceiverValueError ==
    /\ rpc = "dispatch"
    /\ r_pkt.packet_type = "Raw"
    /\ r_pkt.data # <<>>
    /\ Datagram(r_pkt.data) = ValueError
    /\ rpc' = "crashed"
    /\ r_pkt' = NoPacket
    /\ UNCHANGED <<hvars, kvars, recv_call, s_acks, nvars, is_closed, max_window_size, send_buffer, sender_window_size,
                   sender_window, ack_list, exponential_growth, packet_number,
                   recv_buffer, spc, has_loss, s_tmp, r_tmp, close_pc, net_in,
                   net_out, ack_sent, returned, sends, peer_sends>>

\* The receiving side with damaged datagrams among the peer's packets.
NextMalformed ==
    \/ \E p \in RawDatagrams : PeerSendRaw(p)
    \/ \E p \in PeerDatagrams : PeerSend(p)
    \/ \E p \in net_in : ReceiverRecv(p)
    \/ ReceiverEmpty
    \/ ReceiverDecode
    \/ ReceiverValueError
    \/ ReceiverInitial
    \/ HandleAckMiss
    \/ HandleStream
    \/ Recv

SpecMalformed == ConnInit(RECEIVE_SIZE, 1) /\ [][NextMalformed]_vars

\* C17: when the receiver worker has read a truncated or corrupt datagram, the
\* step by which it leaves the datagram drops it: the connection state is
\* unchanged and the worker is back at the head of its loop, where the next
\* well-formed packet is read and processed.
C17_MalformedDropped ==
    [][ (/\ rpc = "dispatch" /\ r_pkt.packet_type = "Raw" /\ Malformed(r_pkt.data)
         /\ rpc' # rpc)
          => /\ rpc' = "loop"
             /\ UNCHANGED <<is_closed, max_window_size, send_buffer, sender_window_size,
                            sender_window, ack_list, exponential_growth, packet_number,
                            recv_buffer>> ]_vars

(***************************************************************************)
(* The caller's send() and recv() around close().                          *)
(***************************************************************************)
\* The caller sends and polls recv(); the peer sends its streams; the
\* connection is closed by close() or by the receiver worker.
NextShutdown ==
    \/ Send(7, Hello)
    \/ Recv
    \/ Close
    \/ ReceiverExit
    \/ \E p \in net_in : ReceiverRecv(p)
    \/ ReceiverRefused
    \/ HandleStream
    \/ \E p \in PeerStream : PeerSend(p)

SpecShutdown == ConnInit(RECEIVE_SIZE, 1) /\ [][NextShutdown]_vars

\* The caller's thread keeps running: the polling loop of a recv() on a closed
\* connection comes to its test of is_closed.
SpecShutdownFair == SpecShutdown /\ WF_vars(is_closed /\ Recv)

\* The last value recv() returned is the end-of-connection result (-1, b"").
EndReturned ==
    /\ Len(returned) > 0
    /\ returned[Len(returned)].stream_id = -1
    /\ returned[Len(returned)].data = <<>>

\* C18: after close() has been called, a send() call enqueues nothing into
\* send_buffer, and a recv() call returns at once with the end-of-connection
\* result, taking nothing from recv_buffer.
C18_FailFast ==
    /\ [][ (close_pc # "idle" /\ sends' # sends) => send_buffer' = send_buffer ]_vars
    /\ [][ (close_pc # "idle" /\ returned' # returned)
             => (EndReturned' /\ recv_buffer' = recv_buffer) ]_vars

\* C19: once the connection is closed, by close() or by the receiver worker, a
\* recv() call returns the end-of-connection result (-1, b""); it does not go
\* on waiting for a stream to complete.  (One pass of the polling loop of
\* recv() is one step.)
C19_RecvEnds == (is_closed /\ Len(returned) < MaxReturns) ~> EndReturned
\* The receiver worker found the peer unreachable, close() was never called,
\* and recv() has returned (-1, b"") with an incomplete stream still buffered.
C19_Witness ==
    /\ is_closed
    /\ close_pc = "idle"
    /\ EndReturned
    /\ recv_buffer # <<>>
    /\ FirstReturnable(recv_buffer) = 0

(***************************************************************************)
(* send(): the frames of one call.                                         *)
(***************************************************************************)
\* The n bytes of the caller's buffer.
Bytes(n) == IF n = 0 THEN <<>> ELSE <<[src |-> "data", lo |-> 0, hi |-> n]>>
\* Lengths around the multiples of max_stream_size, and 3000.
FragmentLengths ==
    {0, 1, max_stream_size - 1, max_stream_size, max_stream_size + 1,
     2 * max_stream_size, 2 * max_stream_size + 1, 3000}

NextFragment == \E sid \in SendStreams, n \in FragmentLengths : Send(sid, Bytes(n))
SpecFragment == ConnInit(RECEIVE_SIZE, 1) /\ [][NextFragment]_vars

\* The frames send() stored for stream sid.
Enqueued(buffer, sid) == buffer[DictIdx(buffer, sid)].frames

\* frames are data cut into ceil(L / M) pieces: frame k at offset k*M with
\* length min(M, L - k*M), which is the size of its payload and at most M; the
\* payloads joined in offset order are data; only the last frame is finished.
CutInto(frames, data, M) ==
    LET L == ByteLen(data)
        n == (L + M - 1) \div M
    IN /\ Len(frames) = n
       /\ \A k \in 0..(n - 1) :
             /\ frames[k + 1].offset = k * M
             /\ frames[k + 1].length = Min(M, L - k * M)
             /\ ByteLen(frames[k + 1].data) = frames[k + 1].length
             /\ frames[k + 1].length <= M
             /\ frames[k + 1].finished = (k = n - 1)
       /\ JoinData(frames) = data

\* Every send(sid, data) enqueues data cut by the payload cap max_stream_size.
SendCuts ==
    [][ \A sid \in SendStreams, n \in FragmentLengths :
          Send(sid, Bytes(n))
            => CutInto(Enqueued(send_buffer', sid), Bytes(n), max_stream_size) ]_vars

\* C20: send(stream_id, data) with len(data) = L enqueues exactly ceil(L / M)
\* stream frames, M being the payload cap (packet size minus the three header
\* sizes, 1467); frame k has offset k*M and length min(M, L - k*M), the size of
\* its payload; no payload exceeds M; the payloads joined in offset order are
\* data; finished is true on the last frame and only on it.  For L = 3000 this
\* is exactly 3 frames, of 1467, 1467 and 66 bytes.
C20_Fragments ==
    /\ SendCuts
    /\ [][ \A sid \in SendStreams :
             Send(sid, Bytes(3000))
               => /\ Len(Enqueued(send_buffer', sid)) = 3
                  /\ Enqueued(send_buffer', sid)[1].length = 1467
                  /\ Enqueued(send_buffer', sid)[2].length = 1467
                  /\ Enqueued(send_buffer', sid)[3].length = 66 ]_vars
\* The same with the example as first stated: 3000 bytes make exactly 2 frames,
\* of 1480 bytes and the remainder.
C20_TwoFrames ==
    /\ SendCuts
    /\ [][ \A sid \in SendStreams :
             Send(sid, Bytes(3000))
               => /\ Len(Enqueued(send_buffer', sid)) = 2
                  /\ Enqueued(send_buffer', sid)[1].length = 1480
                  /\ Enqueued(send_buffer', sid)[2].length = 3000 - 1480 ]_vars
\* send(7, data) of 3000 bytes has enqueued three frames, the last one finished
\* with the 66 bytes left.
C20_Witness ==
    /\ DictHas(send_buffer, 7)
    /\ Len(Enqueued(send_buffer, 7)) = 3
    /\ Enqueued(send_buffer, 7)[3].offset = 2934
    /\ Enqueued(send_buffer, 7)[3].length = 66
    /\ Enqueued(send_buffer, 7)[3].finished
    /\ ByteLen(JoinData(Enqueued(send_buffer, 7))) = 3000

(***************************************************************************)
(* Packet numbers of a connection.                                         *)
(***************************************************************************)
\* Both directions at once: the caller sends two frames on stream 7 in one
\* call, the peer sends its stream 2 once and acknowledges, time passes.
NextNumbers ==
    \/ SenderStep
    \/ \E p \in net_in : ReceiverRecv(p)
    \/ HandleAckMiss
    \/ HandleAckPop
    \/ HandleAckWrite
    \/ HandleAckClamp
    \/ HandleAckSsthresh
    \/ HandleStream
    \/ (sends = 0 /\ Send(7, Body))
    \/ \E p \in PeerStream2 : peer_sends = 0 /\ PeerSend(p)
    \/ \E p \in net_out : PeerReceive(p)
    \/ Tick

SpecNumbers == ConnInit(RECEIVE_SIZE, 1) /\ [][NextNumbers]_vars

\* The packet numbers of the entries of a window, and of the Ack packets sent.
WindowNumbers(window) == { window[i].packet_number : i \in 1..Len(window) }
AckNumbers(sent) == { sent[i].packet_number : i \in 1..Len(sent) }
\* The numbers given out so far: get_packet_number has returned first, first
\* + 1, ..., self.packet_number - 1.
Assigned == 1..(packet_number - 1)

\* C21: packet numbers are assigned strictly increasing: a step of the sender
\* worker that admits entries or sends Ack packets gives them numbers not
\* given out before, each once, and self.packet_number only grows; a stream
\* packet put on the wire carries the number and the frame of a window entry,
\* so a number given out before is on the wire again only as the
\* retransmission of its own entry; no two entries of sender_window carry the
\* same number, and no Ack packet carries the number of another packet.
C21_NumbersIncrease ==
    /\ [][ /\ packet_number' >= packet_number
           /\ (WindowNumbers(sender_window') \ WindowNumbers(sender_window))
              \cup (AckNumbers(ack_sent') \ AckNumbers(ack_sent))
                = packet_number..(packet_number' - 1)
           /\ \A p \in net_out' \ net_out :
                 \E i \in 1..Len(sender_window') :
                    /\ sender_window'[i].packet_number = p.packet_number
                    /\ sender_window'[i].frame = p.frame
                    /\ sender_window'[i].sent_time = "fresh" ]_vars
    /\ [](/\ WindowNumbers(sender_window) \cup AckNumbers(ack_sent) \subseteq Assigned
          /\ Cardinality(WindowNumbers(sender_window)) = Len(sender_window)
          /\ Cardinality(AckNumbers(ack_sent)) = Len(ack_sent)
          /\ \A p \in net_out : p.packet_number \in Assigned \ AckNumbers(ack_sent)
          /\ \A p, q \in net_out : p.packet_number = q.packet_number => p = q)
\* Both stream packets were retransmitted under their own numbers 1 and 2
\* after an Ack packet had been given the later number 3.
C21_Witness ==
    /\ has_loss
    /\ spc = "loss_read"
    /\ WindowNumbers(sender_window) = {1, 2}
    /\ AckNumbers(ack_sent) = {3}
    /\ packet_number = 4

(***************************************************************************)
(* Acknowledgements and the entries they remove.                           *)
(***************************************************************************)
\* The network delivers a copy of stream packet p to the peer while p is
\* still on its way: the peer acknowledges each copy it receives.
PeerReceiveCopy(p) ==
    /\ peer_sends < MaxPeerSends
    /\ p \in net_out
    /\ AckPacket(0, p.packet_number) \notin net_in
    /\ net_in' = net_in \cup {AckPacket(0, p.packet_number)}
    /\ peer_sends' = peer_sends + 1
    /\ UNCHANGED <<hvars, kvars, recv_call, s_acks, nvars, is_closed, max_window_size, send_buffer, sender_window_size,
                   sender_window, ack_list, exponential_growth, packet_number,
                   recv_buffer, spc, has_loss, s_tmp, rpc, r_pkt, r_tmp, close_pc,
                   net_out, ack_sent, returned, sends>>

\* The sending side with a network that duplicates and reorders.
NextAcked ==
    \/ SenderStep
    \/ \E p \in net_in : ReceiverRecv(p)
    \/ HandleAckMiss
    \/ HandleAckPop
    \/ HandleAckWrite
    \/ HandleAckClamp
    \/ HandleAckSsthresh
    \/ \E sid \in SendStreams : Send(sid, Hello)
    \/ \E p \in net_out : PeerReceive(p)
    \/ \E p \in net_out : PeerReceiveCopy(p)
    \/ Tick

SpecAcked == ConnInit(RECEIVE_SIZE, 1) /\ [][NextAcked]_vars

\* The entries admitted to the window but not yet sent.
Unsent(window) == { i \in 1..Len(window) : window[i].sent_time = "zero" }

\* C22: the entry handle_ack removes from sender_window carries the
\* acknowledged packet number and has been sent at least once (its sent_time
\* is not 0); the entries admitted but not yet sent stay in the window; no
\* acknowledgement on its way carries the number of an entry not yet sent.
C22_AckedWasSent ==
    /\ [][ (rpc = "dispatch" /\ rpc' = "ack_write") =>
             \E i \in 1..Len(sender_window) :
                /\ sender_window' = Pop(sender_window, i)
                /\ sender_window[i].packet_number = r_pkt.body.packet_number
                /\ sender_window[i].sent_time # "zero"
                /\ Cardinality(Unsent(sender_window')) = Cardinality(Unsent(sender_window)) ]_vars
    /\ [](\A p \in net_in \cup {r_pkt} :
            IsAck(p) => \A i \in Unsent(sender_window) :
                           sender_window[i].packet_number # p.body.packet_number)
\* handle_ack has just removed the acknowledged entry from a window that
\* holds an entry admitted and not yet sent, with the acknowledgement of the
\* removed entry on its way once more.
C22_Witness ==
    /\ rpc = "ack_write"
    /\ Unsent(sender_window) # {}
    /\ AckPacket(0, r_pkt.body.packet_number) \in net_in

(***************************************************************************)
(* Frames pending in send_buffer.                                          *)
(***************************************************************************)
\* The frames waiting in a send buffer, and those of the entries of a window.
PendingFrames(buffer) ==
    UNION { { buffer[i].frames[j] : j \in 1..Len(buffer[i].frames) } : i \in 1..Len(buffer) }
Admitted(window) == { window[i].frame : i \in 1..Len(window) }

\* C23: no frame enqueued by send() is lost from send_buffer: a frame leaves
\* send_buffer only by being admitted to sender_window, also when send() is
\* called again, for the same stream id or another, while frames of an earlier
\* call are still pending.
C23_NoFrameLost ==
    [][ PendingFrames(send_buffer)
          \subseteq PendingFrames(send_buffer') \cup Admitted(sender_window') ]_vars

\* C24: the growth of sender_window_size by handle_ack (receiver worker) and
\* its halving on a loss (sender worker) are serialized: each of the two
\* stores the step applied to the value sender_window_size holds when it is
\* stored, so that overlapping steps give the result of one of the two
\* sequential orders and neither update is lost.
C24_Serialized ==
    [][ /\ (spc = "loss_write" /\ spc' # spc)
             => sender_window_size' = Halved(sender_window_size)
        /\ (rpc = "ack_write" /\ rpc' # rpc)
             => sender_window_size' = Grown(sender_window_size, exponential_growth) ]_vars

(***************************************************************************)
(* recv() statement by statement: the scan of recv_buffer.                 *)
(***************************************************************************)
\* Lines 196-198: is_closed is false; the for loop takes an iterator over
\* self.recv_buffer.items(), which remembers the size of the dictionary.
RecvIter ==
    /\ recv_call.pc = "idle"
    /\ ~is_closed
    /\ Len(returned) < MaxReturns
    /\ recv_call' = [NoScan EXCEPT !.pc = "next", !.used = Len(recv_buffer)]
    /\ UNCHANGED <<cvars, hvars, kvars, nvars>>

\* Lines 198-207: the iterator is asked for the next item.  It raises
\* RuntimeError (dictionary changed size during iteration) when the size is
\* no longer the one it remembers; at the end of the dictionary the loop is
\* left for the sleep of line 224; otherwise the body looks at the item and
\* sorts a stream that is finished and starts at offset 0.
RecvNext ==
    /\ recv_call.pc = "next"
    /\ recv_call' =
         IF Len(recv_buffer) # recv_call.used
         THEN [recv_call EXCEPT !.pc = "RuntimeError"]
         ELSE IF recv_call.i >= Len(recv_buffer) THEN NoScan
         ELSE IF Returnable(recv_buffer[recv_call.i + 1].frames)
         THEN [recv_call EXCEPT
                 !.pc = "join",
                 !.i = @ + 1,
                 !.stream_id = recv_buffer[recv_call.i + 1].sid,
                 !.ordered_frames = SortedByOffset(recv_buffer[recv_call.i + 1].frames)]
         ELSE [recv_call EXCEPT !.i = @ + 1]
    /\ UNCHANGED <<cvars, hvars, kvars, nvars>>

\* Lines 219-222: join the sorted frames, delete the stream, return.
RecvReturn ==
    /\ recv_call.pc = "join"
    /\ returned' = Append(returned, [stream_id |-> recv_call.stream_id,
                                     data |-> JoinData(recv_call.ordered_frames),
                                     frames |-> recv_call.ordered_frames])
    /\ recv_buffer' = DictDel(recv_buffer, recv_call.stream_id)
    /\ recv_call' = NoScan
    /\ UNCHANGED <<hvars, kvars, s_acks, nvars, is_closed, max_window_size, send_buffer, sender_window_size,
                   sender_window, ack_list, exponential_growth, packet_number, spc,
                   has_loss, s_tmp, rpc, r_pkt, r_tmp, close_pc, net_in, net_out,
                   ack_sent, sends, peer_sends>>

\* The caller in recv() while the receiver worker fills recv_buffer.
NextScan ==
    \/ RecvIter
    \/ RecvNext
    \/ RecvReturn
    \/ \E p \in net_in : ReceiverRecv(p)
    \/ HandleStream
    \/ \E p \in PeerStream : PeerSend(p)

SpecScan == ConnInit(RECEIVE_SIZE, 1) /\ [][NextScan]_vars

\* C25: a recv() call that is scanning recv_buffer while the receiver worker
\* inserts a frame, for a stream already in the buffer or for a new stream
\* id, never fails with an error.
C25_ScanNeverFails == recv_call.pc # "RuntimeError"

(***************************************************************************)
(* hw4/main.py: link-state and distance-vector routing.  Routers are      *)
(* numbered from 0 as in the source; a list indexed by router is a        *)
(* function on 0..n-1, a list that is only appended to and iterated is a  *)
(* sequence.                                                               *)
(***************************************************************************)
NO_LINK == 999

\* Line 142-146 and 232-236: itertools.permutations(enumerate(routers), 2)
\* yields the pairs (i, j), i # j, in lexicographic order; the links are kept.
Pairs(n) == [k \in 1..(n * n) |-> <<(k - 1) \div n, (k - 1) % n>>]
direct_links(cost) ==
    SelectSeq(Pairs(Cardinality(DOMAIN cost)),
              LAMBDA p : p[1] # p[2] /\ cost[p[1]][p[2]] # NO_LINK)

RECURSIVE Chain(_)
\* The messages list after a sequence of send loops, each appending its own.
Chain(lists) == IF lists = <<>> THEN <<>> ELSE Head(lists) \o Chain(Tail(lists))

\* MessageService.get_messages, lines 31-32.
get_messages(messages, id) == SelectSeq(messages, LAMBDA m : m.destination = id)

\* OspfRouter.__init__, lines 47-54.  messages holds what the router's last
\* receive_link_state returned (line 103).
OspfRouter(id, row) ==
    [id |-> id,
     link_cost |-> [i \in DOMAIN row |->
                      IF i = id THEN row ELSE [j \in DOMAIN row |-> 999]],
     updated_link_states |-> <<[id |-> id, link_cost |-> row]>>,
     messages |-> <<>>]

\* OspfRouter.send_link_state, lines 59-71: the messages one call appends.
send_link_state(self, router) ==
    [k \in 1..Len(self.updated_link_states) |->
        [source |-> self.id,
         destination |-> router,
         originator |-> self.updated_link_states[k].id,
         link_cost |-> self.updated_link_states[k].link_cost]]

\* A find_duplicate that never finds one.
find_none(messages, row) == 0

\* find_duplicate, lines 78-82; 0 stands for None.
find_duplicate(messages, row) ==
    IF \E i \in 1..Len(messages) : messages[i].link_cost = row
    THEN CHOOSE i \in 1..Len(messages) :
            /\ messages[i].link_cost = row
            /\ \A j \in 1..(i - 1) : messages[j].link_cost # row
    ELSE 0

RECURSIVE receive_link_state(_, _, _)
\* OspfRouter.receive_link_state, lines 84-100: the loop over the inbox.
receive_link_state(self, inbox, messages) ==
    IF inbox = <<>> THEN messages
    ELSE LET message == Head(inbox)
             idx == find_duplicate(messages, message.link_cost)
         IN  IF self.link_cost[message.originator] = message.link_cost
             THEN receive_link_state(self, Tail(inbox), messages)
             ELSE IF idx # 0
             THEN receive_link_state(self, Tail(inbox),
                      IF messages[idx].source > message.source
                      THEN [messages EXCEPT ![idx] = message]
                      ELSE messages)
             ELSE receive_link_state(self, Tail(inbox), Append(messages, message))

RECURSIVE OspfUpdate(_, _)
\* OspfRouter.update, lines 105-116: the link cost matrix after the loops.
OspfUpdate(matrix, states) ==
    IF states = <<>> THEN matrix
    ELSE LET id == Head(states).id
             row == Head(states).link_cost
         IN  OspfUpdate([matrix EXCEPT ![id] =
                            [i \in DOMAIN row |-> IF row[i] < @[i] THEN row[i] ELSE @[i]]],
                        Tail(states))

\* heappop, line 125: the least (cost, id) tuple of the heap.
HeapMin(heap) ==
    CHOOSE e \in heap :
        \A f \in heap : e[1] < f[1] \/ (e[1] = f[1] /\ e[2] <= f[2])

RECURSIVE Dijkstra(_, _, _)
\* OspfRouter.shortest_paths, lines 124-132: the while loop.  The heap is kept
\* as a set: a tuple pushed twice is popped twice in the source, and its
\* second pop is skipped by line 126.
Dijkstra(matrix, heap, shortest_path) ==
    IF heap = {} THEN shortest_path
    ELSE LET e == HeapMin(heap)
             cost == e[1]
             id == e[2]
             rest == heap \ {e}
         IN  IF cost >= shortest_path[id]
             THEN Dijkstra(matrix, rest, shortest_path)
             ELSE LET path == [shortest_path EXCEPT ![id] = cost]
                      pushed == {<<matrix[id][i] + cost, i>> : i \in
                                   {i \in DOMAIN matrix : matrix[id][i] + cost < path[i]}}
                  IN  Dijkstra(matrix, rest \cup pushed, path)

\* OspfRouter.shortest_paths, lines 118-134.
OspfShortestPaths(self) ==
    Dijkstra(self.link_cost, {<<0, self.id>>}, [i \in DOMAIN self.link_cost |-> 999])

\* A network of n routers: every symmetric matrix with a zero diagonal and
\* link costs drawn from costs.
Matrices(n, costs) ==
    LET above == {p \in (0..(n - 1)) \X (0..(n - 1)) : p[1] < p[2]}
    IN  {[i \in 0..(n - 1) |-> [j \in 0..(n - 1) |->
            IF i = j THEN 0 ELSE IF i < j THEN c[<<i, j>>] ELSE c[<<j, i>>]]] :
         c \in [above -> costs]}

RECURSIVE Reach(_, _)
\* The routers joined to those of seen by a chain of links.
Reach(m, seen) ==
    LET more == seen \cup {j \in DOMAIN m : \E i \in seen : m[i][j] # NO_LINK}
    IN  IF more = seen THEN seen ELSE Reach(m, more)
Connected(m) == Reach(m, {0}) = DOMAIN m

MaxRouters == 4
OspfCosts == {1, 2, 500, NO_LINK}
OspfInputs == {m \in Matrices(MaxRouters, OspfCosts) : Connected(m)}

\* The order of tuples of integers: a < b.
RECURSIVE TupleLess(_, _)
TupleLess(a, b) ==
    IF a = <<>> THEN b # <<>>
    ELSE IF b = <<>> THEN FALSE
    ELSE IF Head(a) # Head(b) THEN Head(a) < Head(b)
    ELSE TupleLess(Tail(a), Tail(b))

\* Lines 172 and 261: itertools.chain(*(sorted(record) for record in records)).
Logs(rounds) == Chain([k \in 1..Len(rounds) |-> SortSeq(rounds[k], TupleLess)])

\* Lines 160-162: (m.source, m.originator, m.destination) for m in messages.
OspfRecords(messages) ==
    [k \in 1..Len(messages) |->
        <<messages[k].source, messages[k].originator, messages[k].destination>>]

\* Line 251: (m.source, m.destination) for m in messages.
RipRecords(messages) ==
    [k \in 1..Len(messages) |-> <<messages[k].source, messages[k].destination>>]

\* run_ospf, lines 140-150: the call, up to the head of the loop.
RunOspf(m) ==
    /\ algo = "none"
    /\ algo' = "ospf"
    /\ link_cost' = m
    /\ routers' = [i \in DOMAIN m |-> OspfRouter(i, m[i])]
    /\ is_converged' = FALSE
    /\ shortest_paths' = <<>>
    /\ records' = <<>>
    /\ logs' = <<>>
    /\ UNCHANGED <<cvars, hvars, kvars, recv_call>>

\* Lines 157-163 for one router: receive_link_state, which stores the link
\* states it kept, then update.
OspfHear(self, messages) ==
    LET received == receive_link_state(self, get_messages(messages, self.id), <<>>)
        states == [k \in 1..Len(received) |->
                      [id |-> received[k].originator, link_cost |-> received[k].link_cost]]
    IN  [self EXCEPT !.messages = received,
                     !.updated_link_states = states,
                     !.link_cost = OspfUpdate(@, states)]

\* run_ospf, lines 152-169: one turn of the loop.
OspfRound ==
    /\ algo = "ospf"
    /\ ~is_converged
    /\ LET links == direct_links(link_cost)
           messages == Chain([k \in 1..Len(links) |->
                                send_link_state(routers[links[k][1]], links[k][2])])
       IN  /\ routers' = [i \in DOMAIN routers |-> OspfHear(routers[i], messages)]
           /\ records' = Append(records, Chain([k \in 1..Cardinality(DOMAIN routers) |->
                                    OspfRecords(routers'[k - 1].messages)]))
           /\ is_converged' = ~(\E i \in DOMAIN routers :
                                   routers'[i].link_cost # routers[i].link_cost)
    /\ UNCHANGED <<cvars, hvars, kvars, recv_call, algo, link_cost, shortest_paths, logs>>

\* run_ospf, lines 171-174: the loop has ended and the call returns.
OspfReturn ==
    /\ algo = "ospf"
    /\ is_converged
    /\ shortest_paths = <<>>
    /\ shortest_paths' = [i \in DOMAIN routers |-> OspfShortestPaths(routers[i])]
    /\ logs' = Logs(records)
    /\ UNCHANGED <<cvars, hvars, kvars, recv_call, algo, link_cost, routers, is_converged, records>>

NextOspf == (\E m \in OspfInputs : RunOspf(m)) \/ OspfRound \/ OspfReturn
SpecOspf == ConnInit(RECEIVE_SIZE, 1) /\ [][NextOspf]_vars

\* The paths from router i to router j: no router twice, a link between each
\* router and the next.  The link costs are positive, so a cheapest path is
\* one of them.
SimplePaths(m, i, j) ==
    {p \in UNION {[1..k -> DOMAIN m] : k \in 1..Cardinality(DOMAIN m)} :
        /\ p[1] = i
        /\ p[Len(p)] = j
        /\ \A a, b \in 1..Len(p) : a # b => p[a] # p[b]
        /\ \A a \in 1..(Len(p) - 1) : m[p[a]][p[a + 1]] # NO_LINK}

RECURSIVE PathCost(_, _)
\* The cost of a path: the sum of the costs of its links.
PathCost(m, p) == IF Len(p) < 2 THEN 0 ELSE m[p[1]][p[2]] + PathCost(m, Tail(p))

\* The cost of the cheapest path between every two routers of a connected
\* network.
Cheapest(m) ==
    [i \in DOMAIN m |-> [j \in DOMAIN m |->
        LET costs == {PathCost(m, p) : p \in SimplePaths(m, i, j)}
        IN  CHOOSE c \in costs : \A e \in costs : c <= e]]

\* run_ospf has returned.
OspfReturned == algo = "ospf" /\ DOMAIN shortest_paths # {}

\* C26 as stated: for every symmetric link-cost matrix of a connected network,
\* entry [i][j] of the first result of run_ospf is the cost of the cheapest
\* path from router i to router j.
C26_OspfCheapest == OspfReturned => shortest_paths = Cheapest(link_cost)

\* What run_ospf returns on those matrices: entry [i][j] is the cost of the
\* cheapest path from router i to router j when that cost is below 999, and
\* 999 when it is not.
C26_OspfCheapestBelowNoLink ==
    OspfReturned =>
        shortest_paths = [i \in DOMAIN link_cost |-> [j \in DOMAIN link_cost |->
                             Min(Cheapest(link_cost)[i][j], NO_LINK)]]

\* run_ospf has returned the cost 3 of the path 0-1-2-3 of three links, for
\* routers 0 and 3 that only that path joins.
C26_Witness ==
    /\ OspfReturned
    /\ link_cost[0][2] = NO_LINK /\ link_cost[0][3] = NO_LINK /\ link_cost[1][3] = NO_LINK
    /\ shortest_paths[0][3] = 3
    /\ shortest_paths[3][0] = 3

(***************************************************************************)
(* run_rip.                                                                *)
(***************************************************************************)
\* RipRouter.__init__, lines 185-189.
RipRouter(id, row) ==
    [id |-> id, distance_vector |-> row, messages |-> <<>>, is_converged |-> FALSE]

\* A router that sends its vector in every round, converged or not.
send_always(self, router) ==
    <<[source |-> self.id, destination |-> router,
       distance_vector |-> self.distance_vector]>>

\* RipRouter.send_distance_vector, lines 194-207: the messages one call appends.
send_distance_vector(self, router) ==
    IF self.is_converged THEN <<>>
    ELSE <<[source |-> self.id,
            destination |-> router,
            distance_vector |-> self.distance_vector]>>

RECURSIVE RipVector(_, _, _)
\* RipRouter.update, lines 215-219: new_distance_vector after the loops.
RipVector(self, messages, new_distance_vector) ==
    IF messages = <<>> THEN new_distance_vector
    ELSE LET message == Head(messages)
             new_cost(i) == message.distance_vector[i] + self.distance_vector[message.source]
         IN  RipVector(self, Tail(messages),
                 [i \in DOMAIN new_distance_vector |->
                     IF new_cost(i) < self.distance_vector[i]
                     THEN new_cost(i)
                     ELSE new_distance_vector[i]])

\* A router whose update always reports a change.
RipHearAlwaysUpdated(self, messages) ==
    LET received == get_messages(messages, self.id)
        new_distance_vector == RipVector(self, received, self.distance_vector)
    IN  [self EXCEPT !.messages = received,
                     !.distance_vector = new_distance_vector,
                     !.is_converged = FALSE]

\* Lines 249-253 for one router: receive_distance_vector, then update.
RipHear(self, messages) ==
    LET received == get_messages(messages, self.id)
        new_distance_vector == RipVector(self, received, self.distance_vector)
        updated == new_distance_vector # self.distance_vector
    IN  [self EXCEPT !.messages = received,
                     !.distance_vector = new_distance_vector,
                     !.is_converged = ~updated]

RipCosts == {1, 2, NO_LINK}
RipInputs == {m \in Matrices(MaxRouters, RipCosts) : Connected(m)}

\* run_rip, lines 230-242: the call, up to the head of the loop.
RunRip(m) ==
    /\ algo = "none"
    /\ algo' = "rip"
    /\ link_cost' = m
    /\ routers' = [i \in DOMAIN m |-> RipRouter(i, m[i])]
    /\ is_converged' = FALSE
    /\ shortest_paths' = <<>>
    /\ records' = <<>>
    /\ logs' = <<>>
    /\ UNCHANGED <<cvars, hvars, kvars, recv_call>>

\* run_rip, lines 244-258: one turn of the loop.
RipRound ==
    /\ algo = "rip"
    /\ ~is_converged
    /\ LET links == direct_links(link_cost)
           messages == Chain([k \in 1..Len(links) |->
                                send_distance_vector(routers[links[k][1]], links[k][2])])
       IN  /\ routers' = [i \in DOMAIN routers |-> RipHear(routers[i], messages)]
           /\ records' = Append(records, Chain([k \in 1..Cardinality(DOMAIN routers) |->
                                    RipRecords(routers'[k - 1].messages)]))
           /\ is_converged' = ~(\E i \in DOMAIN routers : ~routers'[i].is_converged)
    /\ UNCHANGED <<cvars, hvars, kvars, recv_call, algo, link_cost, shortest_paths, logs>>

\* run_rip, lines 260-263: the loop has ended and the call returns.
RipReturn ==
    /\ algo = "rip"
    /\ is_converged
    /\ shortest_paths = <<>>
    /\ shortest_paths' = [i \in DOMAIN routers |-> routers[i].distance_vector]
    /\ logs' = Logs(records)
    /\ UNCHANGED <<cvars, hvars, kvars, recv_call, algo, link_cost, routers, is_converged, records>>

NextRip == (\E m \in RipInputs : RunRip(m)) \/ RipRound \/ RipReturn
SpecRip == ConnInit(RECEIVE_SIZE, 1) /\ [][NextRip]_vars

\* run_rip has returned.
RipReturned == algo = "rip" /\ DOMAIN shortest_paths # {}

\* C27: for every symmetric link-cost matrix of a connected network, entry
\* [i][j] of the first result of run_rip is the cost of the cheapest path from
\* router i to router j: the distance vectors at convergence are the true
\* shortest-path distances.
C27_RipCheapest == RipReturned => shortest_paths = Cheapest(link_cost)

\* run_rip has returned the cost 3 of the path 0-1-2-3 of three links, for
\* routers 0 and 3 that only that path joins.
C27_Witness ==
    /\ RipReturned
    /\ link_cost[0][2] = NO_LINK /\ link_cost[0][3] = NO_LINK /\ link_cost[1][3] = NO_LINK
    /\ shortest_paths[0][3] = 3
    /\ shortest_paths[3][0] = 3

(***************************************************************************)
(* handle_ack: what one call does to the window.                           *)
(***************************************************************************)
\* States of a connection between two transfers, when everything sent has been
\* acknowledged: the window size and the slow start flag after that many
\* acknowledgements (and, where the flag is off, losses), under the advertised
\* window given.
GrowStates ==
    {[window |-> RECEIVE_SIZE, size |-> 32, growth |-> TRUE, number |-> 4],
     [window |-> RECEIVE_SIZE, size |-> 64, growth |-> TRUE, number |-> 5],
     [window |-> RECEIVE_SIZE, size |-> 64, growth |-> FALSE, number |-> 7],
     [window |-> RECEIVE_SIZE, size |-> 650, growth |-> FALSE, number |-> 528],
     [window |-> 6, size |-> 6, growth |-> TRUE, number |-> 2]}

\* A connection at rest in state g, with buffer queued by len(buffer) calls of
\* send() that the sender worker has not yet looked at.
AtRest(g, buffer) ==
    /\ is_closed = FALSE
    /\ max_window_size = g.window
    /\ send_buffer = buffer
    /\ sender_window_size = g.size
    /\ sender_window = <<>>
    /\ ack_list = <<>>
    /\ exponential_growth = g.growth
    /\ packet_number = g.number
    /\ recv_buffer = <<>>
    /\ spc = "admit"
    /\ has_loss = FALSE
    /\ s_tmp = 0
    /\ rpc = "loop"
    /\ r_pkt = NoPacket
    /\ r_tmp = 0
    /\ close_pc = "idle"
    /\ net_in = {}
    /\ net_out = {}
    /\ ack_sent = <<>>
    /\ returned = <<>>
    /\ sends = Len(buffer)
    /\ peer_sends = 0
    /\ side = "server"
    /\ HandshakeOver
    /\ CodecIdle
    /\ recv_call = NoScan
    /\ s_acks = <<>>
    /\ NoRun

GrowInit == \E g \in GrowStates : AtRest(g, <<>>)

\* The sending side, from window sizes on both sides of the slow start
\* threshold and of the advertised window.
SpecGrow == GrowInit /\ [][NextSend]_vars

\* C28: handle_ack for a packet number present in sender_window removes
\* exactly that entry; it stores 2 * old if it found the connection in slow
\* start and old + 1 if not, old being the size it read, and then the minimum
\* of max_window_size and the size; it ends slow start exactly when the size
\* then exceeds 64 and never begins it; so after any handle_ack completes,
\* being in slow start implies a size of at most 64.
C28_HandleAck ==
    /\ [][ /\ (rpc = "dispatch" /\ rpc' = "ack_write") =>
                 /\ \E i \in 1..Len(sender_window) :
                       /\ sender_window[i].packet_number = r_pkt.body.packet_number
                       /\ sender_window' = Pop(sender_window, i)
                 /\ r_tmp' = IF exponential_growth THEN 2 * sender_window_size
                             ELSE sender_window_size + 1
           /\ (rpc = "ack_write" /\ rpc' = "ack_clamp") => sender_window_size' = r_tmp
           /\ (rpc = "ack_clamp" /\ rpc' = "ack_ssthresh") =>
                 sender_window_size' = Min(max_window_size, sender_window_size)
           /\ (rpc = "ack_ssthresh" /\ rpc' = "loop") =>
                 /\ sender_window_size' = sender_window_size
                 /\ exponential_growth' = (exponential_growth /\ ~(sender_window_size > 64)) ]_vars
    /\ [](exponential_growth /\ rpc \notin {"ack_clamp", "ack_ssthresh"}
             => sender_window_size <= 64)

\* handle_ack has taken the connection out of slow start: the size 64 grew to
\* 128 on the acknowledgement of the one packet sent.
C28_Witness ==
    /\ rpc = "loop"
    /\ sender_window_size = 128
    /\ ~exponential_growth
    /\ ~has_loss
    /\ packet_number = 6
    /\ sender_window = <<>>

(***************************************************************************)
(* The send window and the congestion window.                              *)
(***************************************************************************)
\* C29 as stated: in every reachable state the number of entries in
\* sender_window is at most sender_window_size, also just after a loss has
\* halved the size.
C29_WindowBounded == Len(sender_window) <= sender_window_size

\* C29: the sender worker admits frames only up to sender_window_size: a step
\* that adds entries to sender_window leaves at most sender_window_size of
\* them.  The window holds more entries than the size only once a loss has
\* halved the size, which removes no entry.
C29_AdmissionBounded ==
    /\ [][ Len(sender_window') > Len(sender_window)
              => Len(sender_window') <= sender_window_size ]_vars
    /\ [](Len(sender_window) > sender_window_size => ~exponential_growth)

\* The second loss has just halved the size to 1 while two packets are
\* unacknowledged.
C29_Witness ==
    /\ spc = "acks"
    /\ has_loss
    /\ sender_window_size = 1
    /\ Len(sender_window) = 2

(***************************************************************************)
(* Admission from several streams.                                         *)
(***************************************************************************)
\* Connections at rest whose window size is 1 or 2 after losses.
RobinStates ==
    {[window |-> RECEIVE_SIZE, size |-> 1, growth |-> FALSE, number |-> 9],
     [window |-> RECEIVE_SIZE, size |-> 2, growth |-> FALSE, number |-> 7]}

\* send(7, data) and send(8, data), 2000 bytes each, before the sender worker
\* next looks at send_buffer.
TwoStreams == DictSet(DictSet(<<>>, 7, Fragment(7, Body, 0)), 8, Fragment(8, Body, 0))

RobinInit == \E g \in RobinStates : AtRest(g, TwoStreams)

\* The sender worker and the acknowledging peer; nothing more is queued.
NextRobin ==
    \/ SenderStep
    \/ \E p \in net_in : ReceiverRecv(p)
    \/ HandleAckMiss
    \/ HandleAckPop
    \/ HandleAckWrite
    \/ HandleAckClamp
    \/ HandleAckSsthresh
    \/ \E p \in net_out : PeerReceive(p)
    \/ Tick

SpecRobin == RobinInit /\ [][NextRobin]_vars

\* The frames of a stream still in send_buffer, and the number of them the
\* sender worker has admitted so far.
PendingOf(buffer, sid) == buffer[DictIdx(buffer, sid)].frames
AdmittedOf(buffer, sid) == Len(Fragment(sid, Body, 0)) - Len(PendingOf(buffer, sid))

\* C30: admission is round-robin for every window size from 1 up: while two
\* streams both have pending frames, no two frames of one are admitted
\* without a frame of the other in between, so a step that admits a frame of
\* a stream while the other stream still waits leaves the first at most one
\* frame ahead.
C30_RoundRobin ==
    [][ \A s, t \in {7, 8} :
          (/\ s # t
           /\ AdmittedOf(send_buffer', s) > AdmittedOf(send_buffer, s)
           /\ PendingOf(send_buffer', t) # <<>>)
             => AdmittedOf(send_buffer', s) <= AdmittedOf(send_buffer', t) + 1 ]_vars


(***************************************************************************)
(* Loss signals (lines 263-288).                                           *)
(***************************************************************************)
\* The entries of a window that were sent before and have timed out.
Retransmitted(window) ==
    { i \in 1..Len(window) : window[i].sent_time = "expired" }

\* The packet sender_thread builds for a window entry (lines 274-282).
PacketOf(entry) == [packet_number |-> entry.packet_number, frame |-> entry.frame]

\* C31: only a second-or-later send of a packet number is a loss signal.  A
\* pass of the send loop over a window none of whose entries was sent before
\* goes on to the acks with has_loss unset, so that it neither halves
\* sender_window_size nor ends slow start; the loss step is only reached
\* with has_loss set, and has_loss is only set by a pass that retransmits;
\* every packet a pass sends is that of a window entry, a retransmitted
\* entry is sent with its packet number and its frame, and an entry keeps its
\* frame for as long as its packet number is in the window.
C31_OnlyRetransmissionsSignalLoss ==
    /\ [][ /\ (spc = "send" /\ spc' # "send") =>
                 /\ has_loss' = (Retransmitted(sender_window) # {})
                 /\ Retransmitted(sender_window) = {} =>
                       /\ spc' = "acks"
                       /\ sender_window_size' = sender_window_size
                       /\ exponential_growth' = exponential_growth
                 /\ \A p \in net_out' \ net_out :
                       \E i \in 1..Len(sender_window) : p = PacketOf(sender_window[i])
                 /\ \A i \in Retransmitted(sender_window) :
                       /\ PacketOf(sender_window[i]) \in net_out'
                       /\ PacketOf(sender_window'[i]) = PacketOf(sender_window[i])
           /\ \A i \in 1..Len(sender_window), j \in 1..Len(sender_window') :
                 sender_window'[j].packet_number = sender_window[i].packet_number
                    => sender_window'[j].frame = sender_window[i].frame ]_vars
    /\ [](spc \in {"loss_read", "loss_write"} => has_loss)

\* Two newly admitted entries have just been sent for the first time: no loss
\* is signalled, the window is as large as before and slow start goes on.
C31_Witness ==
    /\ spc = "acks"
    /\ ~has_loss
    /\ Len(sender_window) = 2
    /\ \A i \in 1..Len(sender_window) :
          /\ sender_window[i].sent_time = "fresh"
          /\ PacketOf(sender_window[i]) \in net_out
    /\ exponential_growth
    /\ sender_window_size = 4


(***************************************************************************)
(* The drain of ack_list (lines 290-303), one Ack packet at a time, while  *)
(* the receiver worker appends (line 377).                                 *)
(***************************************************************************)
\* A drain that empties the queue instead of removing the ack it has sent.
Cleared(list, x) == <<>>

\* list.remove(x): the list without the first element equal to x.
RECURSIVE Removed(_, _)
Removed(list, x) ==
    IF list = <<>> THEN list
    ELSE IF Head(list) = x THEN Tail(list)
    ELSE <<Head(list)>> \o Removed(Tail(list), x)

\* Line 291: ack_list = self.ack_list.copy().
SenderAcksCopy ==
    /\ spc = "acks"
    /\ s_acks' = ack_list
    /\ spc' = IF ack_list = <<>> THEN "check" ELSE "drain"
    /\ UNCHANGED <<hvars, kvars, recv_call, nvars, is_closed, max_window_size, send_buffer,
                   sender_window_size, sender_window, ack_list, exponential_growth,
                   packet_number, recv_buffer, has_loss, s_tmp, rpc, r_pkt, r_tmp,
                   close_pc, net_in, net_out, ack_sent, returned, sends, peer_sends>>

\* Lines 294-303, one iteration: the next ack of the copy is sent in an Ack
\* packet with a fresh packet number and removed from self.ack_list.  (An
\* append of the receiver worker between the send and the remove is the same
\* as one after the remove: it adds at the end, the remove takes the ack at
\* the front.)
SenderAckSend ==
    /\ spc = "drain"
    /\ s_acks # <<>>
    /\ ack_sent' = Append(ack_sent, [packet_number |-> packet_number,
                                     ack |-> Head(s_acks)])
    /\ packet_number' = packet_number + 1
    /\ ack_list' = Removed(ack_list, Head(s_acks))
    /\ s_acks' = Tail(s_acks)
    /\ spc' = IF Tail(s_acks) = <<>> THEN "check" ELSE "drain"
    /\ UNCHANGED <<hvars, kvars, recv_call, nvars, is_closed, max_window_size, send_buffer,
                   sender_window_size, sender_window, exponential_growth, recv_buffer,
                   has_loss, s_tmp, rpc, r_pkt, r_tmp, close_pc, net_in, net_out,
                   returned, sends, peer_sends>>

SenderDrainStep ==
    \/ SenderAdmit
    \/ SenderSend
    \/ SenderAcksCopy
    \/ SenderAckSend
    \/ SenderCheck

\* The peer sends and retransmits its stream packets; the receiver worker
\* queues an ack for each one it reads while the sender worker drains.
NextDrain ==
    \/ SenderDrainStep
    \/ \E p \in net_in : ReceiverRecv(p)
    \/ ReceiverInitial
    \/ HandleStream
    \/ \E p \in PeerDatagrams : PeerSend(p)

SpecDrain == ConnInit(RECEIVE_SIZE, 1) /\ [][NextDrain]_vars

\* The sender worker is a thread that keeps running.
SpecDrainFair == SpecDrain /\ WF_vars(SenderDrainStep)

\* The AckFrames the peer's packets can give rise to.
AckValues == { AckFrame(p.packet_number) : p \in PeerStream }

Queued(list, a) == Cardinality({ i \in 1..Len(list) : list[i] = a })
SentIn(sent, a) == Cardinality({ i \in 1..Len(sent) : sent[i].ack = a })

\* The step in which handle_stream appends AckFrame a to ack_list.
Appends(a) ==
    rpc = "dispatch" /\ IsStream(r_pkt) /\ rpc' = "loop"
    /\ a = AckFrame(r_pkt.packet_number)

\* C32: every AckFrame the receiver worker appends to ack_list is sent by the
\* sender worker in exactly one Ack packet with a fresh packet number and
\* then removed, also when the receiver appends while the sender drains.
\* For every AckFrame value, the number of copies queued plus the number of
\* Ack packets sent for it changes only by the receiver's append, which adds
\* one (no ack is dropped unsent, none is sent twice); an Ack packet is sent
\* for an ack that is queued, under the next packet number, which is used up,
\* and the ack leaves the queue in that step and in no other; the packet
\* numbers of the Ack packets differ; and the queue is empty again and again
\* for as long as the sender worker runs.
C32_AcksSentOnce ==
    /\ [][ /\ \A a \in AckValues :
                 Queued(ack_list', a) + SentIn(ack_sent', a)
                    = Queued(ack_list, a) + SentIn(ack_sent, a)
                      + (IF Appends(a) THEN 1 ELSE 0)
           /\ ack_sent' # ack_sent =>
                 \E a \in AckValues :
                    /\ Queued(ack_list, a) >= 1
                    /\ ack_sent' = Append(ack_sent, [packet_number |-> packet_number,
                                                     ack |-> a])
                    /\ packet_number' = packet_number + 1
                    /\ Queued(ack_list', a) = Queued(ack_list, a) - 1
           /\ Len(ack_list') < Len(ack_list) => ack_sent' # ack_sent ]_vars
    /\ [](\A i, j \in 1..Len(ack_sent) :
             i < j => ack_sent[i].packet_number < ack_sent[j].packet_number)
    /\ []<>(ack_list = <<>>)

\* The sender worker is draining a copy that held the acks of packets 2 and 3:
\* it has sent and removed the first, and the receiver worker has meanwhile
\* appended the ack of packet 4, which is queued behind the second.
C32_Witness ==
    /\ spc = "drain"
    /\ ack_sent = <<[packet_number |-> 1, ack |-> AckFrame(2)]>>
    /\ s_acks = <<AckFrame(3)>>
    /\ ack_list = <<AckFrame(3), AckFrame(4)>>


(***************************************************************************)
(* Stream packets at the receiver worker (lines 338-343, 370-377).         *)
(***************************************************************************)
\* buffer.get(sid, []): the frames buffered for a stream.
BufferedOf(buffer, sid) ==
    IF DictHas(buffer, sid) THEN buffer[DictIdx(buffer, sid)].frames ELSE <<>>

StreamIds(buffer) == { buffer[i].sid : i \in 1..Len(buffer) }

\* C33: the receiver worker's step for a OneRTT packet with a Stream frame
\* appends the frame to recv_buffer[stream_id], the other streams' lists
\* staying as they are, appends to ack_list exactly one AckFrame, whose
\* packet number is the packet's header packet number, and leaves
\* sender_window, sender_window_size and send_buffer unchanged.
C33_StreamHandled ==
    [][ (rpc = "dispatch" /\ IsStream(r_pkt) /\ rpc' # rpc) =>
           LET sid == r_pkt.body.stream_id IN
           /\ BufferedOf(recv_buffer', sid)
                 = Append(BufferedOf(recv_buffer, sid), r_pkt.body)
           /\ StreamIds(recv_buffer') = StreamIds(recv_buffer) \cup {sid}
           /\ \A t \in StreamIds(recv_buffer) \ {sid} :
                 BufferedOf(recv_buffer', t) = BufferedOf(recv_buffer, t)
           /\ ack_list' = Append(ack_list, [packet_number |-> r_pkt.packet_number,
                                            window_size |-> RECEIVE_SIZE])
           /\ UNCHANGED <<sender_window, sender_window_size, send_buffer>> ]_vars

\* The stream packet 5 of the peer has been handled while a packet of this
\* side was in sender_window: its frame is buffered and its number is
\* acknowledged.
C33_Witness ==
    /\ rpc = "loop"
    /\ BufferedOf(recv_buffer, 2) = <<PeerFrame(2, 0, 50, TRUE)>>
    /\ ack_list = <<AckFrame(5)>>
    /\ sender_window # <<>>


(***************************************************************************)
(* Stale handshake packets (lines 324-327).                                *)
(***************************************************************************)
\* Initial packets that reach the connection after the handshake: the peer's
\* last handshake packet, one whose Ack frame names packet 1 of this side,
\* and one that carries a Stream frame.
StaleInitials ==
    { InitialPacket(1),
      [packet_type |-> "Initial", packet_number |-> 0, frame_type |-> "Ack",
       body |-> AckFrame(1)],
      [packet_type |-> "Initial", packet_number |-> 5, frame_type |-> "Stream",
       body |-> PeerFrame(2, 0, 50, TRUE)] }

\* The network delivers a stale Initial packet.
PeerSendStale(p) ==
    /\ peer_sends < MaxPeerSends
    /\ p \in StaleInitials
    /\ p \notin net_in
    /\ net_in' = net_in \cup {p}
    /\ peer_sends' = peer_sends + 1
    /\ UNCHANGED <<hvars, kvars, recv_call, s_acks, nvars, is_closed, max_window_size, send_buffer,
                   sender_window_size, sender_window, ack_list, exponential_growth,
                   packet_number, recv_buffer, spc, has_loss, s_tmp, rpc, r_pkt, r_tmp,
                   close_pc, net_out, ack_sent, returned, sends>>

\* The sending side, with stale Initial packets among the peer's Ack packets.
NextStale ==
    \/ SenderAdmit
    \/ SenderSend
    \/ SenderAcks
    \/ SenderCheck
    \/ \E p \in net_in : ReceiverRecv(p)
    \/ ReceiverInitial
    \/ HandleAckPop
    \/ HandleAckWrite
    \/ HandleAckClamp
    \/ HandleAckSsthresh
    \/ Send(7, Hello)
    \/ \E p \in net_out : PeerReceive(p)
    \/ \E p \in StaleInitials : PeerSendStale(p)

SpecStale == ConnInit(RECEIVE_SIZE, 1) /\ [][NextStale]_vars

\* C34: the receiver worker's step for an Initial packet, whatever frame the
\* packet carries, takes the worker back to the head of its loop and leaves
\* recv_buffer, ack_list, sender_window, sender_window_size and
\* exponential_growth unchanged.
C34_StaleInitialIgnored ==
    [][ (rpc = "dispatch" /\ r_pkt.packet_type = "Initial" /\ rpc' # rpc) =>
           /\ rpc' = "loop"
           /\ UNCHANGED <<recv_buffer, ack_list, sender_window, sender_window_size,
                          exponential_growth>> ]_vars

\* All three stale Initial packets have been read and skipped, the one naming
\* packet 1 among them, while packet 1 was sent and unacknowledged: its entry
\* is still in the window, which has not grown, and nothing is buffered or
\* queued.
C34_Witness ==
    /\ rpc = "loop"
    /\ peer_sends = 3
    /\ net_in = {}
    /\ net_out # {}
    /\ Len(sender_window) = 1
    /\ sender_window[1].packet_number = 1
    /\ sender_window[1].sent_time = "fresh"
    /\ packet_number = 2
    /\ sender_window_size = 4
    /\ exponential_growth
    /\ recv_buffer = <<>>
    /\ ack_list = <<>>


(***************************************************************************)
(* QuicStreamFrame.from_bytes on a buffer that goes on after the frame.    *)
(***************************************************************************)
\* What may follow an encoded frame in a buffer: a stray byte, or the next
\* frame packed behind it.
Followers ==
    { <<9>>,
      StreamFrameToBytes([stream_id |-> 7, offset |-> 3, length |-> 1,
                          finished |-> TRUE, data |-> <<42>>]) }

\* The buffer handed to from_bytes holds more than what to_bytes returned.
CodecFollow(extra) ==
    /\ k_obj # NoObject
    /\ k_wire = to_bytes(k_obj)
    /\ k_out = NoObject
    /\ k_wire' = k_wire \o extra
    /\ UNCHANGED <<cvars, hvars, recv_call, nvars, k_obj, k_out>>

NextPacked ==
    \/ \E x \in CodecObjects : CodecNew(x)
    \/ CodecToBytes
    \/ \E extra \in Followers : CodecFollow(extra)
    \/ CodecFromBytes

SpecPacked == ConnInit(RECEIVE_SIZE, 1) /\ [][NextPacked]_vars

\* A stream frame whose length field is the size of its payload.
Consistent(x) == x.kind = "QuicStreamFrame" /\ x.length = Len(x.data)

\* C35: decoding a StreamFrame takes exactly length payload bytes, length
\* being the frame's length field, also from a buffer that holds more bytes
\* after the encoded frame: the decoded payload has length bytes.
C35_PayloadHasLength ==
    (k_obj # NoObject /\ Consistent(k_obj) /\ k_out # NoObject)
        => Len(k_out.data) = k_out.length

\* A frame of three payload bytes has been decoded from a buffer in which the
\* next frame follows it.
C35_Witness ==
    /\ k_obj # NoObject
    /\ Consistent(k_obj)
    /\ k_obj.length = 3
    /\ Len(k_wire) = 2 * StreamFrameSize + 3 + 1
    /\ k_out # NoObject
    /\ k_out.length = 3


(***************************************************************************)
(* Termination of run_ospf and run_rip.                                    *)
(***************************************************************************)
\* Link costs from zero up, one above NO_LINK included; the networks need not
\* be connected.
RouteCosts == {0, 1, 1000, NO_LINK}
RouteInputs == Matrices(MaxRouters, RouteCosts)

RouteRound == OspfRound \/ RipRound
RouteReturn == OspfReturn \/ RipReturn

NextRoute ==
    \/ \E m \in RouteInputs : RunOspf(m)
    \/ \E m \in RouteInputs : RunRip(m)
    \/ RouteRound
    \/ RouteReturn

SpecRoute == ConnInit(RECEIVE_SIZE, 1) /\ [][NextRoute]_vars

\* A call that has been made keeps running: a turn of the loop or the return
\* is enabled exactly while the call has not returned, and changes the state,
\* so that the condition below is weak fairness of RouteRound \/ RouteReturn.
Running == algo # "none" /\ shortest_paths = <<>>
SpecRouteFair ==
    /\ SpecRoute
    /\ ([]<>(~Running) \/ []<><<RouteRound \/ RouteReturn>>_vars)

\* What a router's update() changes: its link cost matrix (OspfRouter) or its
\* distance vector (RipRouter).
Table(router) ==
    IF algo = "ospf" THEN router.link_cost ELSE router.distance_vector

\* C36: run_ospf and run_rip terminate for every link-cost matrix with
\* non-negative costs.  A turn of the round loop sets is_converged exactly
\* when no router's update() has changed its table in that turn, the call
\* returns only once is_converged is set, and every call that is made
\* returns: the loop is left after finitely many rounds.
C36_RoundsTerminate ==
    /\ [][ (algo # "none" /\ ~is_converged /\ (routers' # routers \/ is_converged'))
             => (is_converged' <=> \A i \in DOMAIN routers :
                                      Table(routers'[i]) = Table(routers[i])) ]_vars
    /\ [](shortest_paths # <<>> => is_converged)
    /\ (algo # "none" ~> shortest_paths # <<>>)

\* run_rip has returned for a network with a link of cost 0, a link of cost
\* 1000 and a router without links.
C36_Witness ==
    /\ algo = "rip"
    /\ shortest_paths # <<>>
    /\ link_cost[0][1] = 0
    /\ link_cost[1][2] = 1000
    /\ \A j \in 0..2 : link_cost[3][j] = NO_LINK
    /\ shortest_paths[0][2] = 1000


(***************************************************************************)
(* The flooding log of run_ospf.                                           *)
(***************************************************************************)
\* Router s sends the link state of router o to router d in the coming round:
\* d is its neighbour and the link state is among those it has to pass on.
Offers(s, o, d) ==
    /\ s # d
    /\ link_cost[s][d] # NO_LINK
    /\ \E k \in 1..Len(routers[s].updated_link_states) :
          routers[s].updated_link_states[k].id = o

\* The part of logs that stems from round k.
RoundStart(k) == Len(Chain([r \in 1..(k - 1) |-> records[r]]))
RoundLog(k) == SubSeq(logs, RoundStart(k) + 1, RoundStart(k) + Len(records[k]))

\* Every record of a round names a link state its destination did not have,
\* offered by the source, no neighbour with a lower id offering it as well.
RecordsAreNews ==
    (algo = "ospf" /\ ~is_converged /\ records' # records) =>
        LET round == records'[Len(records')] IN
        \A k \in 1..Len(round) :
            LET s == round[k][1]
                o == round[k][2]
                d == round[k][3]
            IN  /\ routers[d].link_cost[o] # link_cost[o]
                /\ Offers(s, o, d)
                /\ \A t \in DOMAIN routers : Offers(t, o, d) => s <= t

\* logs holds the records round by round, those of a round in sorted order.
LogInOrder ==
    /\ Len(logs) = Len(Chain(records))
    /\ \A k \in 1..Len(records) :
          /\ {RoundLog(k)[i] : i \in 1..Len(records[k])}
                = {records[k][i] : i \in 1..Len(records[k])}
          /\ \A i \in 1..(Len(records[k]) - 1) :
                TupleLess(RoundLog(k)[i], RoundLog(k)[i + 1])

\* Every link state reaches every other router exactly once.
FloodedOnce ==
    \A o, d \in DOMAIN link_cost :
        o # d => Cardinality({k \in 1..Len(logs) : logs[k][2] = o /\ logs[k][3] = d}) = 1

\* Link costs from 1 up to NO_LINK, which stands for no link.
Plain(m) == \A i, j \in DOMAIN m : i # j => (1 <= m[i][j] /\ m[i][j] <= NO_LINK)

\* C37 (as stated): each record (source, originator, destination) of the
\* flooding log is a link state the destination did not yet know, recorded
\* with the lowest-numbered neighbour that offered it in that round; records
\* are sorted within each round and rounds appear in order; and on every
\* connected network each pair (originator, destination), destination #
\* originator, appears exactly once in the whole log.
C37_FloodingLog ==
    /\ [][RecordsAreNews]_vars
    /\ [](OspfReturned => LogInOrder)
    /\ [](OspfReturned /\ Connected(link_cost) => FloodedOnce)

\* C37 (amended): the same, each pair appearing exactly once on every
\* connected network whose link costs are at least 1 and at most NO_LINK.
C37_FloodingLogPlain ==
    /\ [][RecordsAreNews]_vars
    /\ [](OspfReturned => LogInOrder)
    /\ [](OspfReturned /\ Connected(link_cost) /\ Plain(link_cost) => FloodedOnce)

\* run_ospf has returned for the ring 0-1-2-3-0 of links of cost 1: router 2
\* was offered the link state of router 0 by its neighbours 1 and 3 in the
\* second round, and the log names router 1.
C37_Witness ==
    /\ OspfReturned
    /\ \A i, j \in 0..3 :
          link_cost[i][j] = (IF i = j THEN 0
                             ELSE IF (i - j) \in {1, -1, 3, -3} THEN 1 ELSE NO_LINK)
    /\ Len(records) = 3
    /\ <<1, 0, 2>> \in {records[2][i] : i \in 1..Len(records[2])}
    /\ Len(logs) = 12
    /\ logs[11] = <<1, 0, 2>>


(***************************************************************************)
(* The log of run_rip.                                                     *)
(***************************************************************************)
\* The vectors sent in a round in which the routers of senders send: one from
\* each sender to each of its direct neighbours.
VectorsSent(senders) ==
    {p \in senders \X (DOMAIN link_cost) :
        p[1] # p[2] /\ link_cost[p[1]][p[2]] # NO_LINK}

\* A turn of the loop of run_rip.
RipTurn == algo = "rip" /\ ~is_converged /\ records' # records

\* C38: in run_rip a router sends its distance vector to each direct
\* neighbour in a round exactly if the round is the first or the router's
\* distance vector changed in the update of the round before; the returned
\* log holds the rounds in order, and for each round, in sorted order, one
\* record (source, destination) per vector sent.  Every router is to send
\* when the loop begins, a turn of the loop records exactly the vectors of
\* the routers that are to send, once each, and leaves those routers to send
\* whose distance vector it has changed.
C38_RipLog ==
    /\ [][ RipTurn =>
             LET round == records'[Len(records')]
                 senders == {s \in DOMAIN routers : ~routers[s].is_converged}
             IN  /\ {round[k] : k \in 1..Len(round)} = VectorsSent(senders)
                 /\ Len(round) = Cardinality(VectorsSent(senders))
                 /\ \A s \in DOMAIN routers :
                       ~routers'[s].is_converged
                          <=> routers'[s].distance_vector # routers[s].distance_vector ]_vars
    /\ []((algo = "rip" /\ records = <<>>) =>
             \A s \in DOMAIN routers : ~routers[s].is_converged)
    /\ [](RipReturned => LogInOrder)

\* run_rip has returned for the line 0-1-2-3 of links of cost 1 after three
\* rounds: every router sent in the first two, and only routers 0 and 3,
\* whose vectors the second round changed, in the third.
C38_Witness ==
    /\ RipReturned
    /\ \A i, j \in 0..3 :
          link_cost[i][j] = (IF i = j THEN 0
                             ELSE IF (i - j) \in {1, -1} THEN 1 ELSE NO_LINK)
    /\ Len(records) = 3
    /\ Len(records[1]) = 6
    /\ Len(records[2]) = 6
    /\ records[3] = << <<0, 1>>, <<3, 2>> >>
    /\ Len(logs) = 14
    /\ logs[14] = <<3, 2>>


(***************************************************************************)
(* send() followed by close() (quic_client.py, lines 53-54).               *)
(***************************************************************************)
\* The caller sends and then calls close(), sending nothing afterwards; the
\* peer acknowledges what reaches it.
NextLinger ==
    \/ SenderAdmit
    \/ SenderSend
    \/ SenderAcks
    \/ SenderCheck
    \/ ReceiverExit
    \/ \E p \in net_in : ReceiverRecv(p)
    \/ HandleAckPop
    \/ HandleAckWrite
    \/ HandleAckClamp
    \/ HandleAckSsthresh
    \/ \E sid \in SendStreams : close_pc = "idle" /\ Send(sid, Hello)
    \/ Close
    \/ CloseJoinSender
    \/ CloseJoinReceiver
    \/ \E p \in net_out : PeerReceive(p)

SpecLinger == ConnInit(RECEIVE_SIZE, 1) /\ [][NextLinger]_vars

\* A frame that was never written to the socket: still in send_buffer, or in
\* sender_window with sent_time = 0.
NeverSent ==
    \/ \E i \in 1..Len(send_buffer) : send_buffer[i].frames # <<>>
    \/ \E i \in 1..Len(sender_window) : sender_window[i].sent_time = "zero"

\* C39: data handed to send() before close() is called is transmitted at
\* least once before the sender worker terminates: once sender_thread has
\* returned, no frame is left in send_buffer and no entry of sender_window is
\* unsent.
C39_SentBeforeExit == spc = "done" => ~NeverSent


(***************************************************************************)
(* accept_one with two clients (lines 72, 89, 92, 115-117).                *)
(***************************************************************************)
\* C40: the peer address accept_one connects the socket to and returns is the
\* address of the client that sent the first Initial, to which the server's
\* reply was sent: a handshake is never completed by the first Initial of one
\* client and a second datagram of another.
C40_SamePeer == a_conn.result = "connection" => a_conn.addr = a_addr

====
